---------------------------- MODULE Spec2Model ----------------------------
(***************************************************************************)
(* Model of the dashboard-driven SLI/SLO derivation of the dynatrace       *)
(* service (package dynatrace): the dashboard loader, the per-tile         *)
(* processing of QueryDynatraceDashboardForSLIs, the SLI/SLO synthesis of  *)
(* GenerateSLISLOFromMetricsAPIQuery and the ad-hoc resolver GetSLIValue.  *)
(*                                                                         *)
(* Strings the code takes apart character by character (dashboard ids,     *)
(* dashboard names) are sequences of one-character strings.  Strings the   *)
(* code only cuts at separators (query strings) are sequences of atoms:    *)
(* every separator the code searches for is an atom of its own, and the    *)
(* text between two separators is one atom.                                *)
(***************************************************************************)
EXTENDS Integers, Sequences, FiniteSets, TLC

VARIABLES
    pc,                       \* position of the dashboard pass
    dashboardParam,           \* the dashboard argument of QueryDynatraceDashboardForSLIs
    existingDashboardContent, \* dashboard content stored by a prior run ("" if none)
    dashboard,                \* the local variable dashboard (given or resolved reference)
    dashboardJSON,            \* the fetched and parsed dashboard (NoDashboard if none)
    listed,                   \* the answer to the query of the dashboard list, if it was queried
    tileIx,                   \* index of the next tile of the loop over dashboardJSON.Tiles
    sliResults,               \* the []*SLIResult accumulated by the pass
    Indicators,               \* dashboardSLI.Indicators
    Objectives,               \* dashboardSLO.Objectives
    TotalScore,               \* dashboardSLO.TotalScore
    ret,                      \* what QueryDynatraceDashboardForSLIs returned
    requests,                 \* the backend requests issued so far with their outcomes, in order
    served,                   \* per indicator: the metrics request and response it was computed from
    replay,                   \* the last GetSLIValue call: its input and its result
    fn                        \* harness of the pure functions: input, output, done

vars == <<pc, dashboardParam, existingDashboardContent, dashboard, dashboardJSON, listed,
          tileIx, sliResults, Indicators, Objectives, TotalScore, ret, requests, served, replay, fn>>

passVars == <<pc, dashboardParam, existingDashboardContent, dashboard, dashboardJSON, listed,
              tileIx, sliResults, Indicators, Objectives, TotalScore, ret, requests, served, replay>>

(***************************************************************************)
(* Bounds of the model.                                                    *)
(***************************************************************************)
MaxTiles == 2

MaxNameParts == 3

(***************************************************************************)
(* Helpers on sequences (Go's strings package on character or atom         *)
(* sequences).                                                             *)
(***************************************************************************)
UpperLetters == <<"A","B","C","D","E","F","G","H","I","J","K","L","M","N","O","P","Q","R","S","T","U","V","W","X","Y","Z">>

LowerLetters == <<"a","b","c","d","e","f","g","h","i","j","k","l","m","n","o","p","q","r","s","t","u","v","w","x","y","z">>

ToLowerChar(c) ==
    IF \E i \in 1..Len(UpperLetters) : UpperLetters[i] = c
    THEN LowerLetters[CHOOSE i \in 1..Len(UpperLetters) : UpperLetters[i] = c]
    ELSE c

ToUpperChar(c) ==
    IF \E i \in 1..Len(LowerLetters) : LowerLetters[i] = c
    THEN UpperLetters[CHOOSE i \in 1..Len(LowerLetters) : LowerLetters[i] = c]
    ELSE c

ToLower(s) == [i \in 1..Len(s) |-> ToLowerChar(s[i])]

ToUpper(s) == [i \in 1..Len(s) |-> ToUpperChar(s[i])]

\* a local variable: the value v under the name of the parameter of Op
With(v, Op(_)) == Op(v)

HasPrefix(s, p) == Len(s) >= Len(p) /\ SubSeq(s, 1, Len(p)) = p

\* strings.Index for a one-element separator: the first position of a, 0 if absent
IndexOf(s, a) ==
    IF \E i \in 1..Len(s) : s[i] = a
    THEN CHOOSE i \in 1..Len(s) : s[i] = a /\ \A j \in 1..(i-1) : s[j] # a
    ELSE 0

\* strings.Contains
Contains(s, sub) ==
    \E i \in 1..(Len(s) - Len(sub) + 1) : SubSeq(s, i, i + Len(sub) - 1) = sub

\* strings.Split(s, sep) for a one-element separator
RECURSIVE Split(_, _)
Split(s, sep) ==
    LET i == IndexOf(s, sep)
    IN IF i = 0 THEN <<s>>
       ELSE <<SubSeq(s, 1, i - 1)>> \o Split(SubSeq(s, i + 1, Len(s)), sep)

RECURSIVE Join(_, _)
Join(parts, sep) ==
    IF parts = <<>> THEN <<>>
    ELSE IF Len(parts) = 1 THEN parts[1]
    ELSE parts[1] \o <<sep>> \o Join(Tail(parts), sep)

Range(s) == {s[i] : i \in 1..Len(s)}

\* the first position at which sub occurs in s, 0 if it does not
IndexOfSeq(s, sub) ==
    IF Contains(s, sub)
    THEN CHOOSE i \in 1..(Len(s) - Len(sub) + 1) :
            /\ SubSeq(s, i, i + Len(sub) - 1) = sub
            /\ \A j \in 1..(i-1) : SubSeq(s, j, j + Len(sub) - 1) # sub
    ELSE 0

\* strings.Replace(s, old, new, 1), old not empty
ReplaceFirst(s, old, new) ==
    LET i == IndexOfSeq(s, old)
    IN IF i = 0 THEN s
       ELSE SubSeq(s, 1, i - 1) \o new \o SubSeq(s, i + Len(old), Len(s))

\* strings.Replace(s, old, new, -1), old not empty
RECURSIVE ReplaceAll(_, _, _)
ReplaceAll(s, old, new) ==
    LET i == IndexOfSeq(s, old)
    IN IF i = 0 THEN s
       ELSE SubSeq(s, 1, i - 1) \o new \o ReplaceAll(SubSeq(s, i + Len(old), Len(s)), old, new)

RECURSIVE Concat(_)
Concat(seqs) == IF seqs = <<>> THEN <<>> ELSE Head(seqs) \o Concat(Tail(seqs))

\* strconv.Itoa and %d on the small numbers of the model
Digits == <<"0", "1", "2", "3", "4", "5", "6", "7", "8", "9">>

Itoa(i) == Digits[i + 1]

(***************************************************************************)
(* float64 values are fractions n/d; d = 0 is the NaN of 0.0/0.            *)
(***************************************************************************)
Num(n) == [n |-> n, d |-> 1]

Div(v, k) == [n |-> v.n, d |-> v.d * k]

SameValue(v, w) == (v.d = 0 /\ w.d = 0) \/ (v.d # 0 /\ w.d # 0 /\ v.n * w.d = w.n * v.d)

RECURSIVE Sum(_)
Sum(values) == IF values = <<>> THEN 0 ELSE Head(values) + Sum(Tail(values))

(***************************************************************************)
(* IsValidUUID: the regular expression                                     *)
(*   ^[a-fA-F0-9]{8}-[a-fA-F0-9]{4}-4[a-fA-F0-9]{3}-[8|9|aA|bB][a-fA-F0-9]{3}-[a-fA-F0-9]{12}$ *)
(* matched against the whole string.  The bracket expression of the fourth *)
(* group is a character class, so '|' is one of its members.               *)
(***************************************************************************)
HexChars == {"0","1","2","3","4","5","6","7","8","9","a","b","c","d","e","f","A","B","C","D","E","F"}

VariantClass == {"8", "|", "9", "a", "A", "b", "B"}

UUIDDashAt == {9, 14, 19, 24}

UUIDLen == 36

IsValidUUID(uuid) ==
    /\ Len(uuid) = UUIDLen
    /\ \A i \in 1..UUIDLen :
          IF i \in UUIDDashAt THEN uuid[i] = "-"
          ELSE IF i = 15 THEN uuid[i] = "4"
          ELSE IF i = 20 THEN uuid[i] \in VariantClass
          ELSE uuid[i] \in HexChars


(***************************************************************************)
(* Values shared by the operations.  The empty string is <<>>, a nil       *)
(* pointer or nil slice is Nil, a nil error is NoError.                    *)
(***************************************************************************)
Nil == "nil"

NoError == "no error"

EmptyString == <<>>

\* common_sli.DynatraceConfigDashboardQUERY
DynatraceConfigDashboardQUERY == <<"q","u","e","r","y">>

\* outcomes of one REST call: transport error, status other than 200,
\* status 200 with a body that does not parse, status 200 with a parsed body
RespKinds == {"ok", "transport", "non200", "badbody"}

KqgPrefix == <<"k","q","g",";">>

ProjectKey == <<"p","r","o","j","e","c","t","=">>

ServiceKey == <<"s","e","r","v","i","c","e","=">>

StageKey == <<"s","t","a","g","e","=">>

(***************************************************************************)
(* findDynatraceDashboard: the id of the first listed dashboard whose name *)
(* starts with "kqg;" (any case) and has project=, service= and stage=     *)
(* among its ';'-separated parts (any case); "" if there is none or the    *)
(* list could not be had.                                                  *)
(***************************************************************************)
findValues(keptnEvent) ==
    << ToLower(ProjectKey \o keptnEvent.Project),
       ToLower(ServiceKey \o keptnEvent.Service),
       ToLower(StageKey \o keptnEvent.Stage) >>

\* dashboardMatch that looks for project= and service= only
dashboardMatchTwoTokens(name, keptnEvent) ==
    /\ HasPrefix(ToLower(name), KqgPrefix)
    /\ LET nameSplits == Split(name, ";")
           fv == findValues(keptnEvent)
       IN \A k \in 1..2 :
             \E j \in 1..Len(nameSplits) : fv[k] = ToLower(nameSplits[j])

dashboardMatch(name, keptnEvent) ==
    /\ HasPrefix(ToLower(name), KqgPrefix)
    /\ LET nameSplits == Split(name, ";")
           fv == findValues(keptnEvent)
       IN \A k \in 1..Len(fv) :
             \E j \in 1..Len(nameSplits) : fv[k] = ToLower(nameSplits[j])

RECURSIVE firstMatch(_, _)
firstMatch(dashboards, keptnEvent) ==
    IF dashboards = <<>> THEN EmptyString
    ELSE IF dashboardMatch(Head(dashboards).Name, keptnEvent) THEN Head(dashboards).ID
    ELSE firstMatch(Tail(dashboards), keptnEvent)

findDynatraceDashboard(resp, keptnEvent) ==
    IF resp.kind = "transport" THEN [id |-> EmptyString, err |-> "transport error"]
    ELSE IF resp.kind = "non200" THEN [id |-> EmptyString, err |-> NoError]
    ELSE IF resp.kind = "badbody" THEN [id |-> EmptyString, err |-> "json: cannot unmarshal"]
    ELSE [id |-> firstMatch(resp.dashboards, keptnEvent), err |-> NoError]

(***************************************************************************)
(* Inputs of the pure functions.                                           *)
(***************************************************************************)
\* the dashboard id of the comment of loadDynatraceDashboard
SampleUUID == <<"d","d","b","6","a","5","7","1","-","4","b","d","a","-","4","e","8","b","-","a","9","c","0","-","4","a","3","e","0","2","c","2","e","1","4","a">>

\* SampleUUID with '|' as the first character of its fourth group
PipeUUID == [SampleUUID EXCEPT ![20] = "|"]

\* SampleUUID with 'c' as the first character of its fourth group
BadUUID == [SampleUUID EXCEPT ![20] = "c"]

UUIDAlphabet == {"0", "4", "7", "8", "9", "a", "A", "b", "B", "c", "f", "F", "g", "|", "-"}

UUIDCandidates ==
    {[SampleUUID EXCEPT ![i] = c] : i \in 1..Len(SampleUUID), c \in UUIDAlphabet}
    \cup {SampleUUID \o <<c>> : c \in UUIDAlphabet}
    \cup {<<c>> \o SampleUUID : c \in UUIDAlphabet}
    \cup {SubSeq(SampleUUID, 1, n) : n \in 0..Len(SampleUUID)}

\* a name part as written on the dashboard: key=value, in lower or in upper case
NamePartsLower ==
    { ProjectKey \o <<"a","b">>, ServiceKey \o <<"c">>, StageKey \o <<"d">>,
      StageKey \o <<"x">>, <<"o","t","h","e","r","=","1">> }

NameParts == NamePartsLower \cup {ToUpper(ProjectKey \o <<"a","b">>)}

NamePrefixes == {<<"K","Q","G">>, <<"k","q","g">>, <<"K","Q","G","x">>}

RECURSIVE SeqsUpTo(_, _)
SeqsUpTo(S, n) ==
    IF n = 0 THEN {<<>>}
    ELSE LET shorter == SeqsUpTo(S, n - 1)
         IN shorter \cup {Append(s, x) : s \in {t \in shorter : Len(t) = n - 1}, x \in S}

\* a dashboard of the tenant's list: the code reads ID and Name; Prefix and Parts
\* record what the name was written from
ListedDashboard(id, prefix, parts) ==
    [ID |-> id, Name |-> Join(<<prefix>> \o parts, ";"), Prefix |-> prefix, Parts |-> parts]

NameShapes == NamePrefixes \X SeqsUpTo(NameParts, MaxNameParts)

FindEvents ==
    { [Project |-> <<"A","b">>, Service |-> <<"c">>, Stage |-> <<"D">>],
      [Project |-> <<"a","b">>, Service |-> <<"c">>, Stage |-> <<"x">>] }

\* the dashboards that may stand first in a list of two
FirstListed ==
    { <<<<"k","q","g">>, <<ProjectKey \o <<"a","b">>, StageKey \o <<"d">>, ServiceKey \o <<"c">>>>>>,
      <<<<"k","q","g">>, <<ProjectKey \o <<"a","b">>, StageKey \o <<"d">>>>>> }

FindLists ==
    {<<>>}
    \cup {<<ListedDashboard(<<"i","1">>, n[1], n[2])>> : n \in NameShapes}
    \cup {<<ListedDashboard(<<"i","1">>, f[1], f[2]), ListedDashboard(<<"i","2">>, n[1], n[2])>> :
             f \in FirstListed, n \in NameShapes}

(***************************************************************************)
(* The pure functions, each applied to one input.                          *)
(***************************************************************************)
FnIdle == [op |-> "none", in |-> Nil, out |-> Nil, done |-> FALSE]

CallIsValidUUID ==
    /\ fn.op = "IsValidUUID" /\ ~fn.done
    /\ fn' = [fn EXCEPT !.out = IsValidUUID(fn.in), !.done = TRUE]
    /\ UNCHANGED passVars

CallFindDynatraceDashboard ==
    /\ fn.op = "findDynatraceDashboard" /\ ~fn.done
    /\ fn' = [fn EXCEPT !.out = findDynatraceDashboard(fn.in.resp, fn.in.keptnEvent),
                        !.done = TRUE]
    /\ UNCHANGED passVars

(***************************************************************************)
(* Dashboards.  A pointer is a sequence: <<>> is nil, <<x>> points to x.   *)
(* A title is what ParsePassAndWarningFromString makes of it, beside its   *)
(* text.  A name (indicator name, dimension value) is a sequence of atoms  *)
(* in which every character that CleanIndicatorName treats is an atom.     *)
(***************************************************************************)
NilPtr == <<>>

Some(x) == <<x>>

ApiURL == "https://tenant"

StartInString == "1000"

EndInString == "2000"

KeptnEvent ==
    [Project |-> <<"A","b">>, Service |-> <<"c">>, Stage |-> <<"D">>, Deployment |-> <<"d","i","r">>]

ParseOnChangeMarker == <<"KQG.", "QueryBehavior=ParseOnChange">>

(***************************************************************************)
(* Query strings.  A query string is a sequence of atoms: every separator  *)
(* the code looks for is an atom of its own, a placeholder is "$" followed *)
(* by the characters of its key, the text between them is one atom.        *)
(***************************************************************************)
\* ph.CustomFilters
CustomFilters == << [Key |-> <<"t","i","e","r">>, Value |-> <<"'", "prod", "'">>] >>

RECURSIVE applyCustomFilters(_, _)
applyCustomFilters(query, filters) ==
    IF filters = <<>> THEN query
    ELSE With(ReplaceAll(ReplaceAll(Head(filters).Value, <<"'">>, <<>>), <<"\"">>, <<>>),
              LAMBDA value :
         applyCustomFilters(
             ReplaceAll(ReplaceAll(query, <<"$">> \o Head(filters).Key, value),
                        <<"$">> \o ToUpper(Head(filters).Key), value),
             Tail(filters)))

\* common_sli.ReplaceKeptnPlaceholders
ReplaceKeptnPlaceholders(query, keptnEvent) ==
    LET q1 == ReplaceAll(query, <<"$","P","R","O","J","E","C","T">>, keptnEvent.Project)
        q2 == ReplaceAll(q1, <<"$","S","T","A","G","E">>, keptnEvent.Stage)
        q3 == ReplaceAll(q2, <<"$","S","E","R","V","I","C","E">>, keptnEvent.Service)
    IN ReplaceAll(q3, <<"$","D","E","P","L","O","Y","M","E","N","T">>, keptnEvent.Deployment)

\* replaceQueryParameters of a handler with the given ph.CustomFilters
replaceQueryParametersWith(customFilters, query) ==
    ReplaceKeptnPlaceholders(applyCustomFilters(query, customFilters), KeptnEvent)

replaceQueryParameters(query) == replaceQueryParametersWith(CustomFilters, query)

\* url.QueryEscape and url.QueryUnescape on the separators; BadEscape is a
\* percent sign that no two hex digits follow
BadEscape == "%zz"

EscapeTable ==
    << <<"&", "%26">>, <<"=", "%3D">>, <<":", "%3A">>, <<",", "%2C">>, <<";", "%3B">>,
       <<"?", "%3F">>, <<"~", "~">>, <<"$", "%24">>, <<" ", "+">> >>

EscapeAtom(a) ==
    IF \E i \in 1..Len(EscapeTable) : EscapeTable[i][1] = a
    THEN EscapeTable[CHOOSE i \in 1..Len(EscapeTable) : EscapeTable[i][1] = a][2]
    ELSE a

UnescapeAtom(a) ==
    IF \E i \in 1..Len(EscapeTable) : EscapeTable[i][2] = a
    THEN EscapeTable[CHOOSE i \in 1..Len(EscapeTable) : EscapeTable[i][2] = a][1]
    ELSE a

QueryEscape(s) == [i \in 1..Len(s) |-> EscapeAtom(s[i])]

QueryUnescape(s) == [i \in 1..Len(s) |-> UnescapeAtom(s[i])]

\* url.Values: a sequence of [key, values] entries, one per key, in the order
\* of first appearance
ValuesGet(q, key) ==
    IF \E i \in 1..Len(q) : q[i].key = key
    THEN (q[CHOOSE i \in 1..Len(q) : q[i].key = key].values)[1]
    ELSE <<>>

\* Values.Add that keeps a key's values when it has any
ValuesAddIfAbsent(q, key, value) ==
    IF \E i \in 1..Len(q) : q[i].key = key
    THEN q
    ELSE Append(q, [key |-> key, values |-> <<value>>])

ValuesAdd(q, key, value) ==
    IF \E i \in 1..Len(q) : q[i].key = key
    THEN [i \in 1..Len(q) |->
            IF q[i].key = key THEN [q[i] EXCEPT !.values = Append(@, value)] ELSE q[i]]
    ELSE Append(q, [key |-> key, values |-> <<value>>])

RECURSIVE parseQueryParts(_, _)
parseQueryParts(parts, q) ==
    IF parts = <<>> THEN q
    ELSE LET part == Head(parts)
             eq   == IndexOf(part, "=")
             key  == IF eq = 0 THEN part ELSE SubSeq(part, 1, eq - 1)
             val  == IF eq = 0 THEN <<>> ELSE SubSeq(part, eq + 1, Len(part))
         IN IF part = <<>> THEN parseQueryParts(Tail(parts), q)
            ELSE parseQueryParts(Tail(parts), ValuesAdd(q, QueryUnescape(key), QueryUnescape(val)))

\* url.ParseQuery
ParseQuery(rawQuery) ==
    IF BadEscape \in Range(rawQuery)
    THEN [err |-> "invalid URL escape", values |-> <<>>]
    ELSE [err |-> NoError, values |-> parseQueryParts(Split(rawQuery, "&"), <<>>)]

\* the keys of the metrics API in the order in which Values.Encode sorts them
KeyOrder ==
    << <<"entitySelector">>, <<"from">>, <<"metricSelector">>, <<"resolution">>, <<"scope">>, <<"to">> >>

RECURSIVE encodeValues(_, _)
encodeValues(key, values) ==
    IF values = <<>> THEN <<>>
    ELSE << QueryEscape(key) \o <<"=">> \o QueryEscape(Head(values)) >> \o encodeValues(key, Tail(values))

RECURSIVE encodeKeys(_, _)
encodeKeys(keys, q) ==
    IF keys = <<>> THEN <<>>
    ELSE LET key == Head(keys)
             own == IF \E i \in 1..Len(q) : q[i].key = key
                    THEN encodeValues(key, q[CHOOSE i \in 1..Len(q) : q[i].key = key].values)
                    ELSE <<>>
         IN own \o encodeKeys(Tail(keys), q)

\* url.Values.Encode
Encode(q) == Join(encodeKeys(KeyOrder, q), "&")

MetricsQueryPath == "/api/v2/metrics/query/"

\* BuildDynatraceMetricsQuery: [url, metricID, err]
BuildDynatraceMetricsQuery(metricquery0) ==
    With(replaceQueryParameters(metricquery0), LAMBDA replaced :
    With(IF HasPrefix(replaced, <<"?", "metricSelector", "=">>)
         THEN ReplaceFirst(replaced, <<"?", "metricSelector", "=">>, <<"metricSelector", "=">>)
         ELSE replaced, LAMBDA metricquery :
    With(Split(metricquery, "?"), LAMBDA querySplit :
    With(IF Len(querySplit) = 1 THEN <<>> ELSE querySplit[1], LAMBDA metricSelector0 :
    With(IF Len(querySplit) = 1 THEN querySplit[1]
         ELSE <<"metricSelector", "=">> \o querySplit[1] \o <<"&">> \o querySplit[2],
         LAMBDA metricQueryParams :
    With(ParseQuery(metricQueryParams), LAMBDA parsed :
    With(ValuesAdd(ValuesAdd(ValuesAdd(parsed.values,
                   <<"resolution">>, <<"Inf">>),
                   <<"from">>, <<StartInString>>),
                   <<"to">>, <<EndInString>>), LAMBDA q1 :
    With(ValuesGet(q1, <<"scope">>), LAMBDA scopeData0 :
    With(IF ~Contains(scopeData0, <<"type(SERVICE)">>)
         THEN scopeData0 \o <<",", "type(SERVICE)">>
         ELSE scopeData0, LAMBDA scopeData :
    With(IF scopeData0 # <<>> THEN ValuesAdd(q1, <<"entitySelector">>, scopeData) ELSE q1,
         LAMBDA q2 :
    With(IF metricSelector0 = <<>> THEN ValuesGet(q2, <<"metricSelector">>)
         ELSE metricSelector0, LAMBDA metricSelector :
    IF parsed.err # NoError
    THEN [url |-> <<>>, metricID |-> <<>>, err |-> "could not parse metrics URL"]
    ELSE [url |-> <<ApiURL, MetricsQueryPath, "?">> \o Encode(q2),
          metricID |-> metricSelector, err |-> NoError])))))))))))

\* isMatchingMetricID without the fuzzy match
isMatchingMetricIDExact(singleResultMetricID, queryMetricID) ==
    singleResultMetricID = queryMetricID

\* isMatchingMetricID
isMatchingMetricID(singleResultMetricID, queryMetricID) ==
    IF singleResultMetricID = queryMetricID THEN TRUE
    ELSE IF "~" \in Range(singleResultMetricID) /\ ":" \in Range(singleResultMetricID)
    THEN Split(singleResultMetricID, ":")[1] = Split(queryMetricID, ":")[1]
    ELSE FALSE

ResponseTimeMetric == <<"builtin", ":", "service.response.time">>

\* scaleData
scaleData(metricID, unit, value) ==
    IF unit = <<"MicroSecond">> \/ Contains(metricID, ResponseTimeMetric) THEN Div(value, 1000)
    ELSE IF unit = <<"Byte">> THEN Div(value, 1024)
    ELSE value

\* common_sli.CleanIndicatorName: the characters that are no part of a name go
InvalidNameAtoms == {" ", "/", "%", "$"}

CleanIndicatorName(name) == SelectSeq(name, LAMBDA a : a \notin InvalidNameAtoms)

\* GetEntitySelectorFromEntityFilter; a map is a sequence of [key, value] entries
MapHas(m, key) == \E i \in 1..Len(m) : m[i].key = key

MapGet(m, key) == m[CHOOSE i \in 1..Len(m) : m[i].key = key].value

RECURSIVE entityFilterItems(_, _)
entityFilterItems(kind, items) ==
    IF items = <<>> THEN <<>>
    ELSE <<",", kind, "\"", Head(items), "\"", ")">> \o entityFilterItems(kind, Tail(items))

GetEntitySelectorFromEntityFilter(filtersPerEntityType, entityType) ==
    IF MapHas(filtersPerEntityType, entityType)
    THEN LET filters == MapGet(filtersPerEntityType, entityType)
         IN (IF MapHas(filters, "SPECIFIC_ENTITIES")
             THEN entityFilterItems("entityId(", MapGet(filters, "SPECIFIC_ENTITIES")) ELSE <<>>)
            \o (IF MapHas(filters, "AUTO_TAGS")
                THEN entityFilterItems("tag(", MapGet(filters, "AUTO_TAGS")) ELSE <<>>)
    ELSE <<>>

(***************************************************************************)
(* The metric query of a data explorer query and of a chart series.  The   *)
(* response of the metric definition lookup is [kind, def].                *)
(***************************************************************************)
FilterDimensionValue == "FILTERDIMENSIONVALUE"

EntityDimensionPrefix == <<"dt.entity.">>

describeError(k) ==
    IF k = "transport" THEN "transport error"
    ELSE IF k = "non200" THEN "Metrics API request was not successful"
    ELSE "json: cannot unmarshal"

NoMetricQuery(err) ==
    [err |-> err, metricID |-> <<>>, metricUnit |-> <<>>, metricQuery |-> <<>>,
     fullMetricQuery |-> <<>>, entitySelectorSLIDefinition |-> <<>>,
     filterSLIDefinitionAggregator |-> <<>>]

MetricQuery(def, metricQuery, entitySel, filterSLIDef) ==
    With(BuildDynatraceMetricsQuery(metricQuery), LAMBDA built :
        IF built.err # NoError THEN NoMetricQuery(built.err)
        ELSE [err |-> NoError, metricID |-> built.metricID, metricUnit |-> def.Unit,
              metricQuery |-> metricQuery, fullMetricQuery |-> built.url,
              entitySelectorSLIDefinition |-> entitySel,
              filterSLIDefinitionAggregator |-> filterSLIDef])

\* the loop of lines 1244-1265 that merges every dimension
RECURSIVE mergeSplitByEvery(_, _, _)
mergeSplitByEvery(def, splitBy, metricDimIx) ==
    IF metricDimIx < 0 THEN <<>>
    ELSE <<":", "merge(", Itoa(metricDimIx), ")">> \o mergeSplitByEvery(def, splitBy, metricDimIx - 1)

\* the loop of lines 1244-1265, from metricDimIx down to 0
RECURSIVE mergeSplitBy(_, _, _)
mergeSplitBy(def, splitBy, metricDimIx) ==
    IF metricDimIx < 0 THEN <<>>
    ELSE LET doMergeDimension ==
                 \A i \in 1..Len(splitBy) : splitBy[i] # def.DimensionDefinitions[metricDimIx + 1].Key
         IN (IF doMergeDimension THEN <<":", "merge(", Itoa(metricDimIx), ")">> ELSE <<>>)
            \o mergeSplitBy(def, splitBy, metricDimIx - 1)

GenerateMetricQueryFromDataExplorer(dataQuery, tileManagementZoneFilter, defResp) ==
    IF defResp.kind # "ok" THEN NoMetricQuery(describeError(defResp.kind))
    ELSE
    LET def == defResp.def
        mergeAggregator == mergeSplitBy(def, dataQuery.SplitBy, Len(def.DimensionDefinitions) - 1)
        hasFilter == dataQuery.FilterBy # NilPtr /\ Len(dataQuery.FilterBy[1].NestedFilters) > 0
        nested == dataQuery.FilterBy[1].NestedFilters[1]
        single == hasFilter /\ Len(nested.Criteria) = 1
        isEntity == single /\ HasPrefix(nested.Filter, EntityDimensionPrefix)
        entitySelectorSLIDefinition ==
            IF isEntity THEN <<",", "entityId(", FilterDimensionValue, ")">> ELSE <<>>
        entityFilter ==
            IF isEntity
            THEN <<"&", "entitySelector", "=", "entityId(">> \o nested.Criteria[1].Value \o <<")">>
            ELSE <<>>
        filterSLIDef0 ==
            IF single /\ ~isEntity
            THEN <<":", "filter(eq(">> \o nested.Filter \o <<",", FilterDimensionValue, "))">>
            ELSE <<>>
        filterAggregator ==
            IF single /\ ~isEntity
            THEN <<":", "filter(">> \o nested.Criteria[1].Evaluator \o <<"(">> \o nested.Filter
                 \o <<",">> \o nested.Criteria[1].Value \o <<"))">>
            ELSE <<>>
        filterSLIDefinitionAggregator ==
            IF Len(dataQuery.SplitBy) = 1
            THEN filterSLIDef0 \o <<":", "filter(eq(">> \o dataQuery.SplitBy[1]
                 \o <<",", FilterDimensionValue, "))">>
            ELSE filterSLIDef0
        metricQuery ==
            <<"metricSelector", "=">> \o dataQuery.Metric \o mergeAggregator \o filterAggregator
            \o <<":">> \o ToLower(def.DefaultAggregation) \o <<":", "names">>
            \o entityFilter \o tileManagementZoneFilter
    IN MetricQuery(def, metricQuery, entitySelectorSLIDefinition, filterSLIDefinitionAggregator)

\* the inner loop of lines 1341-1366 over series.Dimensions for one metricDimIx
RECURSIVE chartDimensions(_, _, _)
chartDimensions(dims, metricDimIx, acc) ==
    IF dims = <<>> THEN acc
    ELSE LET seriesDim == Head(dims)
             next ==
                 IF seriesDim.ID # Itoa(metricDimIx) THEN acc
                 ELSE IF Len(seriesDim.Values) > 0
                 THEN [acc EXCEPT !.doMerge = FALSE,
                                  !.filterAggregator =
                                      <<":", "filter(eq(">> \o seriesDim.Name \o <<",">>
                                      \o seriesDim.Values[1] \o <<"))">>]
                 ELSE IF HasPrefix(seriesDim.Name, EntityDimensionPrefix)
                 THEN [acc EXCEPT !.doMerge = FALSE,
                                  !.entitySel = <<",", "entityId(", FilterDimensionValue, ")">>]
                 ELSE [acc EXCEPT !.doMerge = FALSE,
                                  !.filterSLIDef =
                                      <<":", "filter(eq(">> \o seriesDim.Name
                                      \o <<",", FilterDimensionValue, "))">>]
         IN chartDimensions(Tail(dims), metricDimIx, next)

\* the loop of lines 1337-1373, from metricDimIx down to 0
RECURSIVE mergeChart(_, _, _)
mergeChart(series, metricDimIx, acc) ==
    IF metricDimIx < 0 THEN acc
    ELSE With(chartDimensions(series.Dimensions, metricDimIx, [acc EXCEPT !.doMerge = TRUE]),
              LAMBDA inner :
         mergeChart(series, metricDimIx - 1,
                    IF inner.doMerge
                    THEN [inner EXCEPT !.merge = @ \o <<":", "merge(", Itoa(metricDimIx), ")">>]
                    ELSE inner))

Percentile == <<"P","E","R","C","E","N","T","I","L","E">>

chartAggregation(series, def) ==
    LET a1 == IF series.Aggregation # <<"N","O","N","E">> THEN series.Aggregation
              ELSE def.DefaultAggregation
        a2 == IF a1 = Percentile THEN a1 \o <<"(", series.Percentile, ")">> ELSE a1
    IN IF a2 \in {<<"O","F","_","I","N","T","E","R","E","S","T","_","R","A","T","I","O">>,
                  <<"O","T","H","E","R","_","R","A","T","I","O">>}
       THEN <<"a","v","g">> ELSE a2

GenerateMetricQueryFromChart(series, tileManagementZoneFilter, filtersPerEntityType, defResp) ==
    IF defResp.kind # "ok" THEN NoMetricQuery(describeError(defResp.kind))
    ELSE
    With(defResp.def, LAMBDA def :
    With(mergeChart(series, Len(def.DimensionDefinitions) - 1,
                    [doMerge |-> TRUE, merge |-> <<>>, filterAggregator |-> <<>>,
                     filterSLIDef |-> <<>>, entitySel |-> <<>>]), LAMBDA acc :
    With(IF Len(def.EntityType) > 0 THEN def.EntityType[1] ELSE series.EntityType,
         LAMBDA entityType :
    With(GetEntitySelectorFromEntityFilter(filtersPerEntityType, entityType),
         LAMBDA entityTileFilter :
    MetricQuery(def,
        <<"metricSelector", "=">> \o series.Metric \o acc.merge \o acc.filterAggregator
        \o <<":">> \o ToLower(chartAggregation(series, def)) \o <<":", "names">>
        \o <<"&", "entitySelector", "=", "type(", entityType, ")">>
        \o entityTileFilter \o tileManagementZoneFilter,
        acc.entitySel, acc.filterSLIDef)))))

(***************************************************************************)
(* The synthesizer.  What a pass has gathered is a record out = [sliResults,*)
(* Indicators, Objectives, served, ...]: served remembers, per indicator    *)
(* name, the request and the response its value was computed from.         *)
(***************************************************************************)
Request(api, arg) == [api |-> api, arg |-> arg]

SLIResult(metric, value, success, message) ==
    [Metric |-> metric, Value |-> value, Success |-> success, Message |-> message]

SLO(sli, weight, keySli, pass, warning) ==
    [SLI |-> sli, Weight |-> weight, KeySLI |-> keySli, Pass |-> pass, Warning |-> warning]

Put(map, key, value) == (key :> value) @@ map

Served(request, resp, value) == [request |-> request, resp |-> resp, value |-> value]

\* AddIndicator that writes no SLI definition for a failed result
AddIndicatorOfSuccess(out, result, query, slos, request, resp) ==
    [out EXCEPT !.sliResults = Append(@, result),
                !.Indicators = IF result.Success THEN Put(@, result.Metric, query) ELSE @,
                !.Objectives = @ \o slos,
                !.served     = Put(@, result.Metric, Served(request, resp, result.Value))]

\* AddIndicator that puts the new result in front of the results
AddIndicatorInFront(out, result, query, slos, request, resp) ==
    [out EXCEPT !.sliResults = <<result>> \o @,
                !.Indicators = Put(@, result.Metric, query),
                !.Objectives = @ \o slos,
                !.served     = Put(@, result.Metric, Served(request, resp, result.Value))]

\* AddIndicator that appends no SLO definition
AddIndicatorWithoutObjective(out, result, query, slos, request, resp) ==
    [out EXCEPT !.sliResults = Append(@, result),
                !.Indicators = Put(@, result.Metric, query),
                !.served     = Put(@, result.Metric, Served(request, resp, result.Value))]

AddIndicator(out, result, query, slos, request, resp) ==
    [out EXCEPT !.sliResults = Append(@, result),
                !.Indicators = Put(@, result.Metric, query),
                !.Objectives = @ \o slos,
                !.served     = Put(@, result.Metric, Served(request, resp, result.Value))]

restError(k) ==
    IF k = "transport" THEN "transport error"
    ELSE IF k = "non200" THEN "API request was not successful"
    ELSE "json: cannot unmarshal"

\* ExecuteMetricsAPIQuery on the response [kind, Result]
ExecuteMetricsAPIQuery(resp) ==
    IF resp.kind # "ok" THEN [err |-> restError(resp.kind), Result |-> <<>>]
    ELSE IF Len(resp.Result) = 0
    THEN [err |-> "Dynatrace Metrics API returned no DataPoints", Result |-> <<>>]
    ELSE [err |-> NoError, Result |-> resp.Result]

NamesTransform == <<":", "names">>

\* rowDimensions that takes every dimension value, whatever the increment
RECURSIVE rowDimensionsEvery(_, _, _, _, _)
rowDimensionsEvery(dims, dimIx, dimensionIncrement, gen, row) ==
    IF dimIx >= Len(dims) THEN row
    ELSE rowDimensionsEvery(dims, dimIx + 1, dimensionIncrement, gen,
             [row EXCEPT !.indicatorName = @ \o <<"_">> \o dims[dimIx + 1]])

\* the loop of lines 1483-1493 over the dimensions of one data entry, from dimIx
\* (0-based); the read of Dimensions[dimIx+1] past the end is a panic
RECURSIVE rowDimensions(_, _, _, _, _)
rowDimensions(dims, dimIx, dimensionIncrement, gen, row) ==
    IF dimIx >= Len(dims) \/ row.panic THEN row
    ELSE LET dimensionValue == dims[dimIx + 1]
             withEntity == gen.entitySelectorSLIDefinition # <<>> /\ dimensionIncrement = 2
             next == IF withEntity /\ dimIx + 2 > Len(dims) THEN [row EXCEPT !.panic = TRUE] ELSE
                     [panic |-> FALSE,
                      indicatorName |-> row.indicatorName \o <<"_">> \o dimensionValue,
                      filterValue |-> NamesTransform
                          \o ReplaceFirst(gen.filterSLIDefinitionAggregator,
                                          <<FilterDimensionValue>>, dimensionValue),
                      metricQueryForSLI |->
                          IF withEntity
                          THEN row.metricQueryForSLI
                               \o ReplaceFirst(gen.entitySelectorSLIDefinition,
                                               <<FilterDimensionValue>>, dims[dimIx + 2])
                          ELSE row.metricQueryForSLI]
         IN rowDimensions(dims, dimIx + dimensionIncrement, dimensionIncrement, gen, next)

Mean(values) == [n |-> Sum(values), d |-> Len(values)]

\* lines 1460-1538 for one data entry
dataEntry(noOfDimensionsInChart, title, gen, request, resp, dataResultCount, entry, out) ==
    With([panic |-> FALSE, indicatorName |-> title.sli, filterValue |-> NamesTransform,
          metricQueryForSLI |-> gen.metricQuery], LAMBDA row0 :
    With(IF Len(entry.Dimensions) # noOfDimensionsInChart * 2 THEN 1 ELSE 2,
         LAMBDA dimensionIncrement :
    With(IF dataResultCount > 1
         THEN rowDimensions(entry.Dimensions, 0, dimensionIncrement, gen, row0)
         ELSE row0, LAMBDA row :
    With(CleanIndicatorName(row.indicatorName), LAMBDA indicatorName :
    With(scaleData(gen.metricID, gen.metricUnit, Mean(entry.Values)), LAMBDA value :
    IF row.panic THEN [out EXCEPT !.panic = TRUE] ELSE
    AddIndicator(out, SLIResult(indicatorName, value, TRUE, ""),
                 <<"MV2", ";">> \o gen.metricUnit \o <<";">>
                 \o ReplaceFirst(row.metricQueryForSLI, NamesTransform, row.filterValue),
                 <<SLO(indicatorName, title.weight, title.key, title.pass, title.warning)>>,
                 request, resp))))))

\* dataEntries that emits the first data entry only
dataEntriesFirstOnly(n, title, gen, request, resp, count, entries, out) ==
    IF entries = <<>> THEN out
    ELSE dataEntry(n, title, gen, request, resp, count, Head(entries), out)

RECURSIVE dataEntries(_, _, _, _, _, _, _, _)
dataEntries(n, title, gen, request, resp, count, entries, out) ==
    IF entries = <<>> \/ out.panic THEN out
    ELSE dataEntries(n, title, gen, request, resp, count, Tail(entries),
                     dataEntry(n, title, gen, request, resp, count, Head(entries), out))

RECURSIVE singleResults(_, _, _, _, _, _, _)
singleResults(n, title, gen, request, resp, results, out) ==
    IF results = <<>> THEN out
    ELSE LET singleResult == Head(results)
             next == IF isMatchingMetricID(singleResult.MetricID, gen.metricID)
                     THEN dataEntries(n, title, gen, request, resp, Len(singleResult.Data),
                                      singleResult.Data, out)
                     ELSE out
         IN singleResults(n, title, gen, request, resp, Tail(results), next)

\* GenerateSLISLOFromMetricsAPIQuery that omits the indicator of a failed query
GenerateSLISLOFromMetricsAPIQueryOmitting(noOfDimensionsInChart, title, gen, resp, out) ==
    With(Request("metrics", gen.fullMetricQuery), LAMBDA request :
    With(ExecuteMetricsAPIQuery(resp), LAMBDA queryResult :
        IF queryResult.err # NoError THEN out
        ELSE singleResults(noOfDimensionsInChart, title, gen, request, resp,
                           queryResult.Result, out)))

\* GenerateSLISLOFromMetricsAPIQuery, with the append of its results by the caller
GenerateSLISLOFromMetricsAPIQuery(noOfDimensionsInChart, title, gen, resp, out) ==
    With(Request("metrics", gen.fullMetricQuery), LAMBDA request :
    With(ExecuteMetricsAPIQuery(resp), LAMBDA queryResult :
        IF queryResult.err # NoError
        THEN AddIndicator(out, SLIResult(title.sli, Num(0), FALSE, queryResult.err),
                          gen.metricQuery, <<>>, request, resp)
        ELSE singleResults(noOfDimensionsInChart, title, gen, request, resp,
                           queryResult.Result, out)))

(***************************************************************************)
(* SLO, problem and security problem tiles.                                *)
(***************************************************************************)
Criteria(op, value) == [op |-> op, value |-> value]

\* a backend request with its outcome: the error of the call, NoError if none
Call(request, err) == [api |-> request.api, arg |-> request.arg, err |-> err]

Log(out, request, err) == [out EXCEPT !.requests = Append(@, Call(request, err))]

\* ExecuteGetDynatraceSLO on the response [kind, result]
ExecuteGetDynatraceSLO(resp) ==
    IF resp.kind # "ok" THEN restError(resp.kind)
    ELSE IF resp.result.Error # "NONE" THEN "Dynatrace API returned an error"
    ELSE NoError

\* ProcessSLOTile that reads the new fields only
ProcessSLOTileNewFields(sloID, resp, out0) ==
    LET out == Log(out0, Request("slo", sloID), ExecuteGetDynatraceSLO(resp))
        indicatorName == CleanIndicatorName(resp.result.Name)
    IN IF ExecuteGetDynatraceSLO(resp) # NoError THEN out
       ELSE AddIndicator(out,
                SLIResult(indicatorName, Num(resp.result.EvaluatedPercentage), TRUE, ""),
                <<"SLO", ";">> \o sloID,
                <<SLO(indicatorName, 1, FALSE, <<Criteria(">=", resp.result.Warning)>>,
                      <<Criteria(">=", resp.result.Target)>>)>>,
                Request("slo", sloID), resp)

\* ProcessSLOTile and the branch of lines 1652-1659 on its error
ProcessSLOTile(sloID, resp, out0) ==
    LET out == Log(out0, Request("slo", sloID), ExecuteGetDynatraceSLO(resp))
        sloResult == resp.result
        indicatorName == CleanIndicatorName(sloResult.Name)
        warning == IF sloResult.Warning <= 0 THEN sloResult.TargetWarningOLD ELSE sloResult.Warning
        target  == IF sloResult.Target <= 0 THEN sloResult.TargetSuccessOLD ELSE sloResult.Target
    IN IF ExecuteGetDynatraceSLO(resp) # NoError THEN out
       ELSE AddIndicator(out,
                SLIResult(indicatorName, Num(sloResult.EvaluatedPercentage), TRUE, ""),
                <<"SLO", ";">> \o sloID,
                <<SLO(indicatorName, 1, FALSE, <<Criteria(">=", warning)>>,
                      <<Criteria(">=", target)>>)>>,
                Request("slo", sloID), resp)

RECURSIVE sloEntities(_, _, _)
sloEntities(entities, resps, out) ==
    IF entities = <<>> THEN out
    ELSE sloEntities(Tail(entities), Tail(resps), ProcessSLOTile(Head(entities), Head(resps), out))

\* the problem selector of lines 1668-1674 and 1689-1695
problemSelectorOf(status, d, tile) ==
    <<status>>
    \o (IF d.ManagementZone # NilPtr
        THEN <<",", "managementZoneIds(">> \o d.ManagementZone \o <<")">> ELSE <<>>)
    \o (IF tile.TileFilterManagementZone # NilPtr
        THEN <<",", "managementZoneIds(">> \o tile.TileFilterManagementZone \o <<")">> ELSE <<>>)

\* ProcessOpenProblemTile and the branch of lines 1676-1683 on its error
ProcessOpenProblemTile(problemSelector, entitySelector, resp, out0) ==
    With(IF problemSelector # <<>>
         THEN <<"problemSelector", "=">> \o problemSelector ELSE <<>>, LAMBDA query0 :
    With(IF entitySelector # <<>>
         THEN (IF query0 # <<>> THEN <<"&">> ELSE <<>>)
              \o <<"entitySelector", "=">> \o entitySelector
         ELSE query0, LAMBDA problemQuery :
    With(Request("problems", problemQuery), LAMBDA request :
    With(Log(out0, request, IF resp.kind # "ok" THEN restError(resp.kind) ELSE NoError),
         LAMBDA out :
        IF resp.kind # "ok" THEN out
        ELSE AddIndicator(out, SLIResult(<<"problems">>, Num(resp.TotalCount), TRUE, ""),
                 <<"PV2", ";">> \o problemQuery,
                 <<SLO(<<"problems">>, 1, TRUE, <<Criteria("<=", 0)>>, <<>>)>>,
                 request, resp)))))

\* ProcessOpenSecurityProblemTile and the branch of lines 1697-1704 on its error
ProcessOpenSecurityProblemTile(securityProblemSelector, resp, out0) ==
    With(IF securityProblemSelector # <<>>
         THEN <<"securityProblemSelector", "=">> \o securityProblemSelector
         ELSE <<>>, LAMBDA problemQuery :
    With(Request("securityProblems", problemQuery), LAMBDA request :
    With(Log(out0, request, IF resp.kind # "ok" THEN restError(resp.kind) ELSE NoError),
         LAMBDA out :
        IF resp.kind # "ok" THEN out
        ELSE AddIndicator(out, SLIResult(<<"security_problems">>, Num(resp.TotalCount), TRUE, ""),
                 <<"SECPV2", ";">> \o problemQuery,
                 <<SLO(<<"security_problems">>, 1, TRUE, <<Criteria("<=", 0)>>, <<>>)>>,
                 request, resp))))

(***************************************************************************)
(* USQL tiles.  A cell of a result row is [t, s, f]: its JSON type, and    *)
(* its value as a string or as a number.                                   *)
(***************************************************************************)
USQLPath == "/api/v1/userSessionQueryLanguage/table"

\* BuildDynatraceUSQLQuery
BuildDynatraceUSQLQuery(query) ==
    <<ApiURL, USQLPath, "?", "addDeepLinkFields", "=", "false", "&",
      "endTimestamp", "=", EndInString, "&", "explain", "=", "false", "&", "query", "=">>
    \o QueryEscape(replaceQueryParameters(query))
    \o <<"&", "startTimestamp", "=", StartInString>>

\* ExecuteUSQLQuery on the response [kind, Values]
ExecuteUSQLQuery(resp) ==
    IF resp.kind # "ok" THEN restError(resp.kind)
    ELSE IF Len(resp.Values) = 0 THEN "Dynatrace USQL Query didnt return any DataPoints"
    ELSE NoError

\* lines 1793-1807 and 1898-1912: [panic, skip, dimensionName, dimensionValue]
usqlRow(type, rowValue) ==
    LET isString(i) == i >= 1 /\ i <= Len(rowValue) /\ rowValue[i].t = "string"
        isFloat(i)  == i >= 1 /\ i <= Len(rowValue) /\ rowValue[i].t = "float64"
        bad  == [panic |-> TRUE, skip |-> FALSE, dimensionName |-> <<>>, dimensionValue |-> 0]
        skip == [panic |-> FALSE, skip |-> TRUE, dimensionName |-> <<>>, dimensionValue |-> 0]
        row(n, v) == [panic |-> FALSE, skip |-> FALSE, dimensionName |-> rowValue[n].s,
                      dimensionValue |-> rowValue[v].f]
    IN IF type = "SINGLE_VALUE"
       THEN IF isFloat(1)
            THEN [panic |-> FALSE, skip |-> FALSE, dimensionName |-> <<>>,
                  dimensionValue |-> rowValue[1].f]
            ELSE bad
       ELSE IF type \in {"PIE_CHART", "COLUMN_CHART"}
       THEN IF isString(1) /\ isFloat(2) THEN row(1, 2) ELSE bad
       ELSE IF type = "TABLE"
       THEN IF isString(1) /\ isFloat(Len(rowValue)) THEN row(1, Len(rowValue)) ELSE bad
       ELSE skip

\* the loop of lines 1789-1844
RECURSIVE usqlRows(_, _, _, _, _, _)
usqlRows(tile, title, request, resp, rows, out) ==
    IF rows = <<>> \/ out.panic THEN out
    ELSE With(usqlRow(tile.Type, Head(rows)), LAMBDA r :
         With(IF r.dimensionName # <<>>
              THEN title.sli \o <<"_">> \o r.dimensionName ELSE title.sli, LAMBDA indicatorName :
         usqlRows(tile, title, request, resp, Tail(rows),
             IF r.panic THEN [out EXCEPT !.panic = TRUE]
             ELSE IF r.skip THEN out
             ELSE AddIndicator(out, SLIResult(indicatorName, Num(r.dimensionValue), TRUE, ""),
                      <<"USQL", ";", tile.Type, ";">> \o r.dimensionName \o <<";">> \o tile.Query,
                      <<SLO(indicatorName, title.weight, title.key, title.pass, title.warning)>>,
                      request, resp))))

\* lines 1775-1846
ProcessUSQLTile(tile, title, resp, out0) ==
    With(Request("usql", BuildDynatraceUSQLQuery(tile.Query)), LAMBDA request :
    With(Log(out0, request, ExecuteUSQLQuery(resp)), LAMBDA out :
        IF ExecuteUSQLQuery(resp) # NoError THEN out
        ELSE usqlRows(tile, title, request, resp, resp.Values, out)))

\* common_sli.ParsePassAndWarningFromString: a title is its text with what the
\* parse makes of it
Title(text, sli, pass, warning, weight, key) ==
    [text |-> text, sli |-> sli, pass |-> pass, warning |-> warning, weight |-> weight, key |-> key]

ParsePassAndWarningFromString(title) ==
    [sli |-> title.sli, pass |-> title.pass, warning |-> title.warning,
     weight |-> title.weight, key |-> title.key]

NoTitle == Title(<<>>, <<>>, <<>>, <<>>, 1, FALSE)

PlainTitle == Title(<<"Host CPU">>, <<>>, <<>>, <<>>, 1, FALSE)

ResponseTimeTitle ==
    Title(<<"Response Time", ";", "sli=", "resp_time", ";", "pass=<=500", ";", "weight=2", ";", "key=true">>,
          <<"resp_time">>, <<Criteria("<=", 500)>>, <<>>, 2, TRUE)

TestStepTitle ==
    Title(<<"Test Step", ";", "sli=", "test", " ", "step", ";", "pass=<=10", ";", "warning=<=20">>,
          <<"test", " ", "step">>, <<Criteria("<=", 10)>>, <<Criteria("<=", 20)>>, 1, FALSE)

DiskTitle == Title(<<"Disk", ";", "sli=", "disk">>, <<"disk">>, <<>>, <<>>, 1, FALSE)

SessionsTitle ==
    Title(<<"Sessions", ";", "sli=", "sessions", ";", "pass=>=1">>,
          <<"sessions">>, <<Criteria(">=", 1)>>, <<>>, 1, FALSE)

BaseTile ==
    [TileType |-> "HEADER", Name |-> NoTitle, CustomName |-> NoTitle,
     FilterConfigCustomName |-> NoTitle, Markdown |-> <<>>, TileFilterManagementZone |-> NilPtr,
     AssignedEntities |-> <<>>, Queries |-> <<>>, Series |-> <<>>,
     FiltersPerEntityType |-> <<>>, Query |-> <<>>, Type |-> ""]

HeaderTile == BaseTile

SyntheticTile == [BaseTile EXCEPT !.TileType = "SYNTHETIC_TESTS"]

MarkdownMarkerTile ==
    [BaseTile EXCEPT !.TileType = "MARKDOWN",
                     !.Markdown = <<"KQG.", "Total.Pass", "=", "80%", ";">> \o ParseOnChangeMarker]

MarkdownPlainTile ==
    [BaseTile EXCEPT !.TileType = "MARKDOWN", !.Markdown = <<"release notes">>]

\* the tiles that query the backend
SLOTile == [BaseTile EXCEPT !.TileType = "SLO", !.AssignedEntities = << <<"slo-1">> >>]

ProblemsTile == [BaseTile EXCEPT !.TileType = "OPEN_PROBLEMS", !.Name = NoTitle]

SecurityTile ==
    [BaseTile EXCEPT !.TileType = "OPEN_SECURITY_PROBLEMS", !.TileFilterManagementZone = Some("mz2")]

DataQuery(metric, splitBy, filterBy) ==
    [Metric |-> metric, SplitBy |-> splitBy, FilterBy |-> filterBy]

NestedFilter(filter, criteria) == [Filter |-> filter, Criteria |-> criteria]

Criterion(value, evaluator) == [Value |-> value, Evaluator |-> evaluator]

TestStepMetric == <<"calc", ":", "service.teststep">>

DiskMetric == <<"builtin", ":", "host.disk.avail">>

ServiceDimension == <<"dt.entity.", "service">>

ResponseTimeTile ==
    [BaseTile EXCEPT !.TileType = "DATA_EXPLORER", !.Name = ResponseTimeTitle,
                     !.Queries = << DataQuery(ResponseTimeMetric, <<>>, NilPtr) >>]

SplitTile ==
    [BaseTile EXCEPT !.TileType = "DATA_EXPLORER", !.Name = TestStepTitle,
                     !.Queries = << DataQuery(TestStepMetric, << ServiceDimension >>,
                         Some([NestedFilters |->
                             << NestedFilter(<<"Test Step">>, << Criterion(<<"login">>, <<"eq">>) >>) >>])) >>]

EntityFilterTile ==
    [BaseTile EXCEPT !.TileType = "DATA_EXPLORER", !.Name = DiskTitle,
                     !.TileFilterManagementZone = Some("mz2"),
                     !.Queries = << DataQuery(DiskMetric, <<>>,
                         Some([NestedFilters |->
                             << NestedFilter(<<"dt.entity.", "host">>,
                                             << Criterion(<<"HOST-1">>, <<"eq">>) >>) >>])) >>]

UnnamedExplorerTile ==
    [BaseTile EXCEPT !.TileType = "DATA_EXPLORER", !.Name = PlainTitle,
                     !.Queries = << DataQuery(DiskMetric, <<>>, NilPtr) >>]

ChartSeries(metric, aggregation, percentile, entityType, dimensions) ==
    [Metric |-> metric, Aggregation |-> aggregation, Percentile |-> percentile,
     EntityType |-> entityType, Dimensions |-> dimensions]

SeriesDimension(id, name, values) == [ID |-> id, Name |-> name, Values |-> values]

ChartTile ==
    [BaseTile EXCEPT !.TileType = "CUSTOM_CHARTING", !.FilterConfigCustomName = TestStepTitle,
                     !.Name = PlainTitle,
                     !.FiltersPerEntityType =
                         << [key |-> "SERVICE",
                             value |-> << [key |-> "AUTO_TAGS", value |-> <<"env">>] >>] >>,
                     !.Series = << ChartSeries(TestStepMetric, Percentile, "95.000000", "IOT",
                                      << SeriesDimension("1", <<"Test Step">>, <<>>) >>) >>]

EntityChartTile ==
    [BaseTile EXCEPT !.TileType = "CUSTOM_CHARTING", !.CustomName = DiskTitle,
                     !.Series = << ChartSeries(DiskMetric, <<"N","O","N","E">>, "", "HOST",
                                      << SeriesDimension("0", <<"dt.entity.", "host">>, <<>>) >>) >>]

UnnamedChartTile ==
    [BaseTile EXCEPT !.TileType = "CUSTOM_CHARTING", !.Name = PlainTitle,
                     !.Series = << ChartSeries(DiskMetric, <<"A","V","G">>, "", "HOST", <<>>) >>]

SessionsQuery == <<"SELECT count(*) FROM usersession WHERE app", "=", "'", "$", "S","E","R","V","I","C","E", "'">>

SingleValueTile ==
    [BaseTile EXCEPT !.TileType = "DTAQL", !.CustomName = SessionsTitle,
                     !.Query = SessionsQuery, !.Type = "SINGLE_VALUE"]

PieChartTile ==
    [BaseTile EXCEPT !.TileType = "DTAQL", !.CustomName = SessionsTitle,
                     !.Query = <<"SELECT browser, count(*) FROM usersession">>, !.Type = "PIE_CHART"]

TableTile ==
    [BaseTile EXCEPT !.TileType = "DTAQL", !.Name = SessionsTitle,
                     !.Query = <<"SELECT city, browser, count(*) FROM usersession">>, !.Type = "TABLE"]

UnnamedTableTile ==
    [BaseTile EXCEPT !.TileType = "DTAQL", !.Name = PlainTitle,
                     !.Query = <<"SELECT city, count(*) FROM usersession">>, !.Type = "TABLE"]

FunnelTile ==
    [BaseTile EXCEPT !.TileType = "DTAQL", !.Name = SessionsTitle,
                     !.Query = <<"SELECT funnel FROM usersession">>, !.Type = "FUNNEL"]

\* json.MarshalIndent of a tile and of a dashboard: the fields in struct order
RECURSIVE MarshalQueries(_)
MarshalQueries(queries) ==
    IF queries = <<>> THEN <<>>
    ELSE LET q == Head(queries)
         IN <<"{", "metric">> \o q.Metric \o <<"splitBy">> \o Join(q.SplitBy, ",")
            \o (IF q.FilterBy = NilPtr THEN <<>>
                ELSE <<"filterBy">>
                     \o Concat([i \in 1..Len(q.FilterBy[1].NestedFilters) |->
                          LET f == q.FilterBy[1].NestedFilters[i]
                          IN <<"filter">> \o f.Filter \o <<"criteria">>
                             \o Concat([j \in 1..Len(f.Criteria) |->
                                  f.Criteria[j].Value \o <<",">> \o f.Criteria[j].Evaluator])]))
            \o <<"}">> \o MarshalQueries(Tail(queries))

RECURSIVE MarshalSeries(_)
MarshalSeries(series) ==
    IF series = <<>> THEN <<>>
    ELSE LET s == Head(series)
         IN <<"{", "metric">> \o s.Metric \o <<"aggregation">> \o s.Aggregation
            \o <<"percentile", s.Percentile, "entityType", s.EntityType, "dimensions">>
            \o Concat([i \in 1..Len(s.Dimensions) |->
                 <<"id", s.Dimensions[i].ID, "name">> \o s.Dimensions[i].Name
                 \o <<"values">> \o Join(s.Dimensions[i].Values, ",")])
            \o <<"}">> \o MarshalSeries(Tail(series))

MarshalFilters(filtersPerEntityType) ==
    Concat([i \in 1..Len(filtersPerEntityType) |->
        <<filtersPerEntityType[i].key, ":">>
        \o Concat([j \in 1..Len(filtersPerEntityType[i].value) |->
             <<filtersPerEntityType[i].value[j].key, ":">> \o filtersPerEntityType[i].value[j].value])])

MarshalTile(t) ==
    <<"{", "name">> \o t.Name.text \o <<"tileType", t.TileType, "query">> \o t.Query
    \o <<"type", t.Type, "CustomName">> \o t.CustomName.text
    \o <<"Markdown">> \o t.Markdown
    \o <<"tileFilter">> \o t.TileFilterManagementZone
    \o <<"queries">> \o MarshalQueries(t.Queries)
    \o <<"assignedEntities">> \o Join(t.AssignedEntities, ",")
    \o <<"filterConfig">> \o t.FilterConfigCustomName.text
    \o <<"series">> \o MarshalSeries(t.Series)
    \o <<"filtersPerEntityType">> \o MarshalFilters(t.FiltersPerEntityType) \o <<"}">>

RECURSIVE MarshalTiles(_)
MarshalTiles(tiles) ==
    IF tiles = <<>> THEN <<>> ELSE MarshalTile(Head(tiles)) \o MarshalTiles(Tail(tiles))

MarshalIndent(d) ==
    <<"id">> \o d.ID \o <<"dashboardFilter">> \o d.ManagementZone
    \o <<"tiles">> \o MarshalTiles(d.Tiles)

(***************************************************************************)
(* The backend.  A response is [kind, result, TotalCount, Result, Values,  *)
(* def]: the outcome of the REST call and the parsed body of the API that  *)
(* was called (the other fields are at their zero values).                 *)
(***************************************************************************)
NoSLOResult ==
    [Name |-> <<>>, EvaluatedPercentage |-> 0, Error |-> "", Target |-> 0, Warning |-> 0,
     TargetSuccessOLD |-> 0, TargetWarningOLD |-> 0]

NoDefinition ==
    [Unit |-> <<>>, DefaultAggregation |-> <<>>, DimensionDefinitions |-> <<>>, EntityType |-> <<>>]

Resp(kind) ==
    [kind |-> kind, result |-> NoSLOResult, TotalCount |-> 0, Result |-> <<>>,
     Values |-> <<>>, def |-> NoDefinition]

FailureKinds == RespKinds \ {"ok"}

Failures == {Resp(k) : k \in FailureKinds}

SLOResponses ==
    Failures \cup
    { [Resp("ok") EXCEPT !.result =
          [NoSLOResult EXCEPT !.Name = <<"My", " ", "SLO">>, !.EvaluatedPercentage = 95,
                              !.Error = "NONE", !.Target = 99, !.Warning = 97]],
      [Resp("ok") EXCEPT !.result =
          [NoSLOResult EXCEPT !.Name = <<"Old", "/", "SLO">>, !.EvaluatedPercentage = 80,
                              !.Error = "NONE", !.TargetSuccessOLD = 90, !.TargetWarningOLD = 85]],
      [Resp("ok") EXCEPT !.result =
          [NoSLOResult EXCEPT !.Name = <<"My", " ", "SLO">>, !.Error = "SLO calculation failed"]] }

ProblemResponses == Failures \cup {[Resp("ok") EXCEPT !.TotalCount = 2]}

Dimension(key, name) == [Key |-> key, Name |-> name]

\* the metrics of the tenant
MetricDefinitions(metric) ==
    IF metric = ResponseTimeMetric
    THEN [Unit |-> <<"MicroSecond">>, DefaultAggregation |-> <<"A","V","G">>,
          DimensionDefinitions |-> << Dimension(ServiceDimension, <<"Service">>) >>,
          EntityType |-> <<"SERVICE">>]
    ELSE IF metric = TestStepMetric
    THEN [Unit |-> <<"Count">>, DefaultAggregation |-> <<"a","v","g">>,
          DimensionDefinitions |-> << Dimension(ServiceDimension, <<"Service">>),
                                      Dimension(<<"Test Step">>, <<"Test Step">>) >>,
          EntityType |-> <<"SERVICE">>]
    ELSE [Unit |-> <<"Byte">>, DefaultAggregation |-> <<"m","a","x">>,
          DimensionDefinitions |-> << Dimension(<<"dt.entity.", "host">>, <<"Host">>),
                                      Dimension(<<"dt.entity.", "disk">>, <<"Disk">>) >>,
          EntityType |-> <<>>]

DescribeResponses(metric) == Failures \cup {[Resp("ok") EXCEPT !.def = MetricDefinitions(metric)]}

DataEntry(dimensions, values) == [Dimensions |-> dimensions, Values |-> values]

\* the data the tenant may hold for a metric
MetricData(metric) ==
    IF metric = ResponseTimeMetric
    THEN { << DataEntry(<<>>, <<1000>>) >>, << DataEntry(<<>>, <<1000, 3000>>) >> }
    ELSE IF metric = TestStepMetric
    THEN { << DataEntry(<< <<"log", " ", "in">>, <<"STEP-1">> >>, <<10>>),
              DataEntry(<< <<"check", "/", "out">>, <<"STEP-2">> >>, <<20>>) >>,
           << DataEntry(<< <<"STEP-1">> >>, <<10>>), DataEntry(<< <<"STEP-2">> >>, <<30>>) >>,
           << DataEntry(<< <<"login">>, <<"STEP-1">> >>, <<7>>) >> }
    ELSE { << DataEntry(<< <<"host", " ", "a">>, <<"HOST-1">> >>, <<2048>>),
              DataEntry(<< <<"host", " ", "b">>, <<"HOST-2">> >>, <<4096, 0>>) >>,
           << DataEntry(<<>>, <<2048>>) >> }

FirstData(metric) == CHOOSE data \in MetricData(metric) : Len(data) = 1

OtherMetricID == <<"builtin", ":", "other">>

FuzzyMetricID(metricID) == Split(metricID, ":")[1] \o <<":", "filter(dt", "~", "entity)">>

MetricResult(metricID, data) == [MetricID |-> metricID, Data |-> data]

\* the responses of the metrics query API to a query of the metric selector metricID
MetricsResponses(metric, metricID) ==
    Failures \cup {Resp("ok")}
    \cup {[Resp("ok") EXCEPT !.Result = << MetricResult(metricID, data) >>] : data \in MetricData(metric)}
    \cup {[Resp("ok") EXCEPT !.Result = << MetricResult(OtherMetricID, FirstData(metric)) >>],
          [Resp("ok") EXCEPT !.Result = << MetricResult(OtherMetricID, FirstData(metric)),
                                            MetricResult(FuzzyMetricID(metricID), FirstData(metric)) >>]}

Cell(t, s, f) == [t |-> t, s |-> s, f |-> f]

Text(s) == Cell("string", s, 0)

Number(f) == Cell("float64", <<>>, f)

USQLResponses ==
    Failures \cup {Resp("ok")}
    \cup {[Resp("ok") EXCEPT !.Values = rows] : rows \in
            { << <<Number(5)>> >>,
              << <<Text(<<"chrome">>), Number(3)>>, <<Text(<<"fire", " ", "fox">>), Number(4)>> >>,
              << <<Text(<<"linz">>), Text(<<"chrome">>), Number(6)>> >>,
              << <<Text(<<"X11", ";", "Linux">>), Number(2)>> >>,
              << <<Text(<<"chrome">>)>> >> }}

\* all sequences whose i-th element is drawn from the i-th set of sets
RECURSIVE Product(_)
Product(sets) ==
    IF sets = <<>> THEN {<<>>}
    ELSE {<<x>> \o rest : x \in Head(sets), rest \in Product(Tail(sets))}

\* what the backend answers to the calls of one tile: the SLO fetches, the
\* problem and security problem fetches, per query or series the metric
\* definition lookup and the metrics query, and the USQL query
NoEnv ==
    [slo |-> <<>>, problems |-> Resp("ok"), security |-> Resp("ok"), queries |-> <<>>,
     usql |-> Resp("ok")]

QueryEnvs(metric, gen) ==
    {[def |-> f, metrics |-> Resp("ok")] : f \in Failures}
    \cup {[def |-> [Resp("ok") EXCEPT !.def = MetricDefinitions(metric)], metrics |-> m] :
            m \in MetricsResponses(metric, gen.metricID)}

tileManagementZoneFilterOf(d, tile) ==
    IF tile.TileFilterManagementZone # NilPtr
    THEN <<",", "mzId(">> \o tile.TileFilterManagementZone \o <<")">>
    ELSE IF d.ManagementZone # NilPtr
    THEN <<",", "mzId(">> \o d.ManagementZone \o <<")">>
    ELSE <<>>

TileEnvs(d, tile) ==
    LET zone == tileManagementZoneFilterOf(d, tile)
        okDef(metric) == [Resp("ok") EXCEPT !.def = MetricDefinitions(metric)]
    IN IF tile.TileType = "SLO"
       THEN {[NoEnv EXCEPT !.slo = s] :
                s \in Product([i \in 1..Len(tile.AssignedEntities) |-> SLOResponses])}
       ELSE IF tile.TileType = "OPEN_PROBLEMS"
       THEN {[NoEnv EXCEPT !.problems = p, !.security = s] :
                p \in ProblemResponses, s \in ProblemResponses}
       ELSE IF tile.TileType = "OPEN_SECURITY_PROBLEMS"
       THEN {[NoEnv EXCEPT !.security = s] : s \in ProblemResponses}
       ELSE IF tile.TileType = "DATA_EXPLORER"
       THEN {[NoEnv EXCEPT !.queries = qs] :
                qs \in Product([i \in 1..Len(tile.Queries) |->
                    QueryEnvs(tile.Queries[i].Metric,
                        GenerateMetricQueryFromDataExplorer(tile.Queries[i], zone,
                            okDef(tile.Queries[i].Metric)))])}
       ELSE IF tile.TileType = "CUSTOM_CHARTING"
       THEN {[NoEnv EXCEPT !.queries = qs] :
                qs \in Product([i \in 1..Len(tile.Series) |->
                    QueryEnvs(tile.Series[i].Metric,
                        GenerateMetricQueryFromChart(tile.Series[i], zone,
                            tile.FiltersPerEntityType, okDef(tile.Series[i].Metric)))])}
       ELSE IF tile.TileType = "DTAQL"
       THEN {[NoEnv EXCEPT !.usql = u] : u \in USQLResponses}
       ELSE {NoEnv}

(***************************************************************************)
(* One turn of the loop over the tiles, lines 1619-1847.                   *)
(***************************************************************************)
\* common_sli.ParseMarkdownConfiguration on dashboardSLO.TotalScore
RECURSIVE markdownParts(_, _)
markdownParts(parts, totalScore) ==
    IF parts = <<>> THEN totalScore
    ELSE LET part == Head(parts)
             next == IF Len(part) = 4 /\ SubSeq(part, 1, 3) = <<"KQG.", "Total.Pass", "=">>
                     THEN [totalScore EXCEPT !.Pass = part[4]]
                     ELSE IF Len(part) = 4 /\ SubSeq(part, 1, 3) = <<"KQG.", "Total.Warning", "=">>
                     THEN [totalScore EXCEPT !.Warning = part[4]]
                     ELSE totalScore
         IN markdownParts(Tail(parts), next)

ParseMarkdownConfiguration(markdown, totalScore) == markdownParts(Split(markdown, ";"), totalScore)

\* metricTile that reports a failed definition lookup as a failed SLIResult
metricTileReportingLookup(noOfDimensionsInChart, metric, title, gen, env, out0) ==
    With(Log(out0, Request("describe", metric),
             IF env.def.kind # "ok" THEN describeError(env.def.kind) ELSE NoError),
         LAMBDA out1 :
        GenerateSLISLOFromMetricsAPIQuery(noOfDimensionsInChart, title, gen,
            IF gen.err # NoError THEN env.def ELSE env.metrics,
            IF gen.err # NoError THEN out1
            ELSE Log(out1, Request("metrics", gen.fullMetricQuery),
                     ExecuteMetricsAPIQuery(env.metrics).err)))

\* one query or series: the definition lookup, then the metrics query if no error
metricTile(noOfDimensionsInChart, metric, title, gen, env, out0) ==
    With(Log(out0, Request("describe", metric),
             IF env.def.kind # "ok" THEN describeError(env.def.kind) ELSE NoError),
         LAMBDA out1 :
        IF gen.err # NoError THEN out1
        ELSE GenerateSLISLOFromMetricsAPIQuery(noOfDimensionsInChart, title, gen, env.metrics,
                 Log(out1, Request("metrics", gen.fullMetricQuery),
                     ExecuteMetricsAPIQuery(env.metrics).err)))

\* the loop of lines 1719-1731
RECURSIVE dataExplorerQueries(_, _, _, _, _)
dataExplorerQueries(queries, zone, title, envs, out) ==
    IF queries = <<>> THEN out
    ELSE LET dataQuery == Head(queries)
             gen == GenerateMetricQueryFromDataExplorer(dataQuery, zone, Head(envs).def)
         IN dataExplorerQueries(Tail(queries), zone, title, Tail(envs),
                metricTile(Len(dataQuery.SplitBy), dataQuery.Metric, title, gen, Head(envs), out))

\* the loop of lines 1761-1771
RECURSIVE chartSeries(_, _, _, _, _, _)
chartSeries(seriesList, zone, filtersPerEntityType, title, envs, out) ==
    IF seriesList = <<>> THEN out
    ELSE LET series == Head(seriesList)
             gen == GenerateMetricQueryFromChart(series, zone, filtersPerEntityType, Head(envs).def)
         IN chartSeries(Tail(seriesList), zone, filtersPerEntityType, title, Tail(envs),
                metricTile(Len(series.Dimensions), series.Metric, title, gen, Head(envs), out))

\* tileTitleOf that names a tile without a filter or custom name by its type
tileTitleOfByType(tile) ==
    IF tile.FilterConfigCustomName.text # <<>> THEN tile.FilterConfigCustomName
    ELSE IF tile.CustomName.text # <<>> THEN tile.CustomName
    ELSE [tile.Name EXCEPT !.sli = <<tile.TileType>>]

\* lines 1737-1743
tileTitleOf(tile) ==
    IF tile.FilterConfigCustomName.text # <<>> THEN tile.FilterConfigCustomName
    ELSE IF tile.CustomName.text # <<>> THEN tile.CustomName
    ELSE tile.Name

processTile(d, tile, env, out) ==
    IF tile.TileType \in {"HEADER", "SYNTHETIC_TESTS"} THEN out
    ELSE IF tile.TileType = "MARKDOWN"
    THEN IF Contains(tile.Markdown, <<"KQG.">>)
         THEN [out EXCEPT !.TotalScore = ParseMarkdownConfiguration(tile.Markdown, @)]
         ELSE out
    ELSE IF tile.TileType = "SLO" THEN sloEntities(tile.AssignedEntities, env.slo, out)
    ELSE
    With(tileManagementZoneFilterOf(d, tile), LAMBDA zone :
    With(IF tile.TileType = "OPEN_PROBLEMS"
         THEN ProcessOpenProblemTile(problemSelectorOf("status(open)", d, tile), <<>>,
                                     env.problems, out)
         ELSE out, LAMBDA out1 :
    With(IF tile.TileType \in {"OPEN_SECURITY_PROBLEMS", "OPEN_PROBLEMS"}
         THEN ProcessOpenSecurityProblemTile(problemSelectorOf("status(OPEN)", d, tile),
                                             env.security, out1)
         ELSE out1, LAMBDA out2 :
    With(ParsePassAndWarningFromString(tileTitleOf(tile)), LAMBDA title :
        IF tile.TileType = "DATA_EXPLORER"
        THEN IF ParsePassAndWarningFromString(tile.Name).sli = <<>> THEN out2
             ELSE dataExplorerQueries(tile.Queries, zone, ParsePassAndWarningFromString(tile.Name),
                                      env.queries, out2)
        ELSE IF title.sli = <<>> THEN out2
        ELSE IF tile.TileType = "CUSTOM_CHARTING"
        THEN chartSeries(tile.Series, zone, tile.FiltersPerEntityType, title, env.queries, out2)
        ELSE IF tile.TileType = "DTAQL" THEN ProcessUSQLTile(tile, title, env.usql, out2)
        ELSE out2))))

(***************************************************************************)
(* GetSLIValue: the stored query of an indicator is resolved against the   *)
(* backend.  The result is [value, err, panic, requests]: requests are the *)
(* backend requests the call has issued.                                   *)
(***************************************************************************)
Throughput == <<"throughput">>

ErrorRate == <<"error_rate">>

ResponseTimeP50 == <<"response_time_p50">>

ResponseTimeP90 == <<"response_time_p90">>

ResponseTimeP95 == <<"response_time_p95">>

\* the default SLI configs of getTimeseriesConfig
DefaultQuery(metric, aggregation) ==
    <<"metricSelector", "=">> \o metric \o <<":", "merge(0)", ":", aggregation,
      "&", "entitySelector", "=", "type(SERVICE)",
      ",", "tag(keptn_project", ":", "$","P","R","O","J","E","C","T", ")",
      ",", "tag(keptn_stage", ":", "$","S","T","A","G","E", ")",
      ",", "tag(keptn_service", ":", "$","S","E","R","V","I","C","E", ")",
      ",", "tag(keptn_deployment", ":", "$","D","E","P","L","O","Y","M","E","N","T", ")">>

getTimeseriesConfig(metric, CustomQueries) ==
    IF metric \in DOMAIN CustomQueries THEN [val |-> CustomQueries[metric], err |-> NoError]
    ELSE IF metric = Throughput
    THEN [val |-> DefaultQuery(<<"builtin", ":", "service.requestCount.total">>, "sum"),
          err |-> NoError]
    ELSE IF metric = ErrorRate
    THEN [val |-> DefaultQuery(<<"builtin", ":", "service.errors.total.rate">>, "avg"),
          err |-> NoError]
    ELSE IF metric = ResponseTimeP50
    THEN [val |-> DefaultQuery(ResponseTimeMetric, "percentile(50)"), err |-> NoError]
    ELSE IF metric = ResponseTimeP90
    THEN [val |-> DefaultQuery(ResponseTimeMetric, "percentile(90)"), err |-> NoError]
    ELSE IF metric = ResponseTimeP95
    THEN [val |-> DefaultQuery(ResponseTimeMetric, "percentile(95)"), err |-> NoError]
    ELSE [val |-> <<>>, err |-> "Unsupported SLI metric"]

Resolved(value, request) ==
    [value |-> value, err |-> NoError, panic |-> FALSE, requests |-> <<request>>]

Failed(err, issued) ==
    [value |-> Num(0), err |-> err, panic |-> FALSE, requests |-> issued]

Panicked(issued) ==
    [value |-> Num(0), err |-> NoError, panic |-> TRUE, requests |-> issued]

\* a query split that is one atom long, as the string it is
AtomOf(s) == IF Len(s) = 1 THEN s[1] ELSE ""

\* the loop of lines 1894-1919: [metricIDExists, actualMetricValue, panic]
RECURSIVE usqlLookup(_, _, _, _)
usqlLookup(tileName, requestedDimensionName, rows, acc) ==
    IF rows = <<>> \/ acc.panic THEN acc
    ELSE With(usqlRow(AtomOf(tileName), Head(rows)), LAMBDA r :
         usqlLookup(tileName, requestedDimensionName, Tail(rows),
             IF r.panic THEN [acc EXCEPT !.panic = TRUE]
             ELSE IF r.skip THEN acc
             ELSE IF r.dimensionName = requestedDimensionName
             THEN [acc EXCEPT !.metricIDExists = TRUE, !.actualMetricValue = Num(r.dimensionValue)]
             ELSE acc))

\* the loop of lines 1996-2009 without the test of the number of data entries
RECURSIVE metricLookupFirstEntry(_, _, _)
metricLookupFirstEntry(results, metricID, acc) ==
    IF results = <<>> THEN acc
    ELSE IF isMatchingMetricID(Head(results).MetricID, metricID)
    THEN IF Len(Head(results).Data) = 0 \/ Len(Head(results).Data[1].Values) = 0
         THEN [acc EXCEPT !.metricIDExists = TRUE, !.panic = TRUE]
         ELSE [acc EXCEPT !.metricIDExists = TRUE,
                          !.actualMetricValue = Num(Head(results).Data[1].Values[1])]
    ELSE metricLookupFirstEntry(Tail(results), metricID, acc)

\* the loop of lines 1996-2009: the first result of a matching metric id
RECURSIVE metricLookup(_, _, _)
metricLookup(results, metricID, acc) ==
    IF results = <<>> THEN acc
    ELSE IF isMatchingMetricID(Head(results).MetricID, metricID)
    THEN IF Len(Head(results).Data) # 1
         THEN [acc EXCEPT !.metricIDExists = TRUE, !.err = "expected 1 result value"]
         ELSE IF Len(Head(results).Data[1].Values) = 0
         THEN [acc EXCEPT !.metricIDExists = TRUE, !.panic = TRUE]
         ELSE [acc EXCEPT !.metricIDExists = TRUE,
                          !.actualMetricValue = Num(Head(results).Data[1].Values[1])]
    ELSE metricLookup(Tail(results), metricID, acc)

NoLookup == [metricIDExists |-> FALSE, actualMetricValue |-> Num(0), panic |-> FALSE, err |-> NoError]

\* lines 2015-2019
foundValue(metric, found, request) ==
    IF ~found.metricIDExists THEN Failed("Not able to query identifier from Dynatrace", <<request>>)
    ELSE Resolved(found.actualMetricValue, request)

\* lines 1876-1919
usqlValue(metric, metricsQuery, resp) ==
    With(Split(metricsQuery, ";"), LAMBDA querySplits :
        IF Len(querySplits) # 4 THEN Failed("USQL Query incorrect format", <<>>)
        ELSE
        With(Request("usql", BuildDynatraceUSQLQuery(querySplits[4])), LAMBDA request :
            IF ExecuteUSQLQuery(resp) # NoError
            THEN Failed("Error executing USQL Query", <<request>>)
            ELSE
            With(usqlLookup(querySplits[2], querySplits[3], resp.Values, NoLookup), LAMBDA found :
                IF found.panic THEN Panicked(<<request>>)
                ELSE foundValue(metric, found, request))))

\* singleValue that sends every query to the problems endpoint
singleValueOfProblems(metricsQuery, api, resp, formatError, queryError) ==
    With(Split(metricsQuery, ";"), LAMBDA querySplits :
        IF Len(querySplits) # 2 THEN Failed(formatError, <<>>)
        ELSE
        With(Request("problems", querySplits[2]), LAMBDA request :
            IF resp.kind # "ok" THEN Failed(queryError, <<request>>)
            ELSE Resolved(Num(resp.TotalCount), request)))

\* lines 1922-1968: the SLO, problem and security problem queries
singleValue(metricsQuery, api, resp, formatError, queryError) ==
    With(Split(metricsQuery, ";"), LAMBDA querySplits :
        IF Len(querySplits) # 2 THEN Failed(formatError, <<>>)
        ELSE
        With(Request(api, querySplits[2]), LAMBDA request :
            IF api = "slo"
            THEN IF ExecuteGetDynatraceSLO(resp) # NoError THEN Failed(queryError, <<request>>)
                 ELSE Resolved(Num(resp.result.EvaluatedPercentage), request)
            ELSE IF resp.kind # "ok" THEN Failed(queryError, <<request>>)
                 ELSE Resolved(Num(resp.TotalCount), request)))

\* lines 1969-2013: a metrics query, with or without the MV2 prefix
metricsValue(metric, metricsQuery0, resp) ==
    With(HasPrefix(metricsQuery0, <<"MV2", ";">>), LAMBDA isMV2 :
    With(IF isMV2 THEN SubSeq(metricsQuery0, 3, Len(metricsQuery0)) ELSE metricsQuery0,
         LAMBDA rest :
    With(IndexOf(rest, ";"), LAMBDA queryStartIndex :
        IF isMV2 /\ queryStartIndex = 0 THEN Panicked(<<>>)
        ELSE
        With(IF isMV2 THEN SubSeq(rest, 1, queryStartIndex - 1) ELSE <<>>, LAMBDA metricUnit :
        With(IF isMV2 THEN SubSeq(rest, queryStartIndex + 1, Len(rest)) ELSE rest,
             LAMBDA metricsQuery :
        With(BuildDynatraceMetricsQuery(metricsQuery), LAMBDA built :
            IF built.err # NoError THEN Failed(built.err, <<>>)
            ELSE
            With(Request("metrics", built.url), LAMBDA request :
            With(ExecuteMetricsAPIQuery(resp), LAMBDA result :
                IF result.err # NoError
                THEN Failed("Dynatrace Metrics API returned an error", <<request>>)
                ELSE
                With(metricLookup(result.Result, built.metricID, NoLookup), LAMBDA found :
                    IF found.panic THEN Panicked(<<request>>)
                    ELSE IF found.err # NoError THEN Failed(found.err, <<request>>)
                    ELSE foundValue(metric,
                             [found EXCEPT !.actualMetricValue =
                                 scaleData(built.metricID, metricUnit, @)],
                             request))))))))))

GetSLIValue(metric, CustomQueries, resp) ==
    With(getTimeseriesConfig(metric, CustomQueries), LAMBDA config :
        IF config.err # NoError THEN Failed("Error when fetching SLI config", <<>>)
        ELSE IF HasPrefix(config.val, <<"USQL", ";">>) THEN usqlValue(metric, config.val, resp)
        ELSE IF HasPrefix(config.val, <<"SLO", ";">>)
        THEN singleValue(config.val, "slo", resp, "SLO Indicator query has wrong format",
                         "Error executing SLO Dynatrace Query")
        ELSE IF HasPrefix(config.val, <<"PV2", ";">>)
        THEN singleValue(config.val, "problems", resp,
                         "Problemv2 Indicator query has wrong format",
                         "Error executing Dynatrace Problem v2 Query")
        ELSE IF HasPrefix(config.val, <<"SECPV2", ";">>)
        THEN singleValue(config.val, "securityProblems", resp,
                         "Security Problemv2 Indicator query has wrong format",
                         "Error executing Dynatrace Security Problem v2 Query")
        ELSE metricsValue(metric, config.val, resp))

\* HasDashboardChanged that does not look for the marker
HasDashboardChangedIgnoringMarker(d, existingContent) == MarshalIndent(d) # existingContent

(***************************************************************************)
(* HasDashboardChanged: false only if the marshalled dashboard holds the   *)
(* ParseOnChange marker and equals the stored content.                     *)
(***************************************************************************)
HasDashboardChanged(d, existingContent) ==
    With(MarshalIndent(d), LAMBDA newDashboardContent :
        IF ~Contains(newDashboardContent, ParseOnChangeMarker) THEN TRUE
        ELSE IF newDashboardContent = existingContent THEN FALSE
        ELSE TRUE)

\* the tiles of the tenant's dashboards, in the order of a dashboard that holds them all
TileCycle ==
    << ResponseTimeTile, SLOTile, SingleValueTile, ProblemsTile, SplitTile, MarkdownMarkerTile,
       ChartTile, SecurityTile, PieChartTile, EntityFilterTile, HeaderTile, EntityChartTile,
       TableTile, UnnamedExplorerTile, FunnelTile, UnnamedChartTile, SyntheticTile,
       UnnamedTableTile, MarkdownPlainTile >>

\* a data explorer tile of two queries and a chart of two series
TwoQueryTile ==
    [ResponseTimeTile EXCEPT !.Queries = << DataQuery(ResponseTimeMetric, <<>>, NilPtr),
                                            DataQuery(DiskMetric, <<>>, NilPtr) >>]

TwoSeriesTile ==
    [EntityChartTile EXCEPT !.Series =
        << ChartSeries(DiskMetric, <<"N","O","N","E">>, "", "HOST",
               << SeriesDimension("0", <<"dt.entity.", "host">>, <<>>) >>),
           ChartSeries(ResponseTimeMetric, <<"A","V","G">>, "", "SERVICE", <<>>) >>]

TwoEntityTile == [SLOTile EXCEPT !.AssignedEntities = << <<"slo-1">>, <<"slo-2">> >>]

\* the tiles of a dashboard: len tiles of the cycle from a start on, or one tile
\* len times
Window(start, len) == [i \in 1..len |-> TileCycle[((start + i - 2) % Len(TileCycle)) + 1]]

RepeatedTiles == {ResponseTimeTile, SLOTile}

Repeat(tile, len) == [i \in 1..len |-> tile]

TilePool == {HeaderTile, SyntheticTile, MarkdownMarkerTile, MarkdownPlainTile}

ManagementZones == {NilPtr, Some("mz1")}

DashboardOf(id, mz, tiles) == [ID |-> id, ManagementZone |-> mz, Tiles |-> tiles]

RichUUID == [SampleUUID EXCEPT ![1] = "e"]

RichDashboards ==
    {DashboardOf(RichUUID, IF start % 2 = 0 THEN Some("mz1") ELSE NilPtr, Window(start, len)) :
        start \in 1..Len(TileCycle), len \in 0..MaxTiles}
    \cup {DashboardOf(RichUUID, NilPtr, Repeat(tile, len)) :
             tile \in RepeatedTiles, len \in 2..MaxTiles}
    \cup {DashboardOf(RichUUID, NilPtr, <<tile>>) : tile \in {TwoQueryTile, TwoSeriesTile, TwoEntityTile}}

\* the dashboards the tenant may hold under an id
Dashboards(id) ==
    IF id = RichUUID THEN RichDashboards
    ELSE {DashboardOf(id, mz, ts) : mz \in ManagementZones, ts \in SeqsUpTo(TilePool, MaxTiles)}

RichStoredDashboard == DashboardOf(RichUUID, NilPtr, Window(5, 2))

\* the dashboards a prior run may have stored
StoredDashboards ==
    { DashboardOf(SampleUUID, NilPtr, <<MarkdownMarkerTile>>),
      DashboardOf(SampleUUID, NilPtr, <<MarkdownPlainTile>>) }

\* the prefix and the parts of a dashboard name of KeptnEvent, and of another stage
MatchingName ==
    << <<"K","Q","G">>, <<ProjectKey \o <<"a","b">>, StageKey \o <<"d">>, ServiceKey \o <<"c">>>> >>

OtherName ==
    << <<"K","Q","G">>, <<ProjectKey \o <<"a","b">>, StageKey \o <<"x">>, ServiceKey \o <<"c">>>> >>

\* the dashboard lists of the tenant
TenantLists ==
    { <<>>,
      <<ListedDashboard(SampleUUID, OtherName[1], OtherName[2])>>,
      <<ListedDashboard(BadUUID, OtherName[1], OtherName[2]),
        ListedDashboard(SampleUUID, MatchingName[1], MatchingName[2])>>,
      <<ListedDashboard(BadUUID, MatchingName[1], MatchingName[2])>>,
      <<ListedDashboard(PipeUUID, MatchingName[1], MatchingName[2])>> }

DashboardParams == {EmptyString, DynatraceConfigDashboardQUERY, SampleUUID, PipeUUID, BadUUID}

\* the dashboard argument with the content a prior run has stored
PassInputs ==
    (DashboardParams \X ({EmptyString} \cup {MarshalIndent(d) : d \in StoredDashboards}))
    \cup ({RichUUID} \X {EmptyString, MarshalIndent(RichStoredDashboard)})

DefaultTotalScore == [Pass |-> "90%", Warning |-> "75%"]

\* the indicators GetSLIValue may be asked for: those of the dashboard, or with
\* no SLI definitions from a dashboard the default ones and one that is unknown
UnknownMetric == <<"unknown">>

ReplayMetrics(dashboardSLI) ==
    IF dashboardSLI # NilPtr THEN DOMAIN dashboardSLI[1]
    ELSE {Throughput, ResponseTimeP95, UnknownMetric}

\* the metrics query of a stored query: what follows MV2;<unit>;
storedMetricsQuery(query) ==
    IF HasPrefix(query, <<"MV2", ";">>) /\ IndexOf(SubSeq(query, 3, Len(query)), ";") # 0
    THEN SubSeq(query, 3 + IndexOf(SubSeq(query, 3, Len(query)), ";"), Len(query))
    ELSE query

ReplayData == { << DataEntry(<< <<"a">> >>, <<1>>), DataEntry(<< <<"b">> >>, <<2>>) >> }

IsMetricsQuery(query) ==
    \A prefix \in {"USQL", "SLO", "PV2", "SECPV2"} : ~HasPrefix(query, <<prefix, ";">>)

\* what the backend may answer to the request of GetSLIValue for a stored query:
\* the response the pass has had for the indicator, a failure, or other data
ReplayResponses(metric, query, servedBefore) ==
    IF query = <<>> THEN {Resp("ok")}
    ELSE (IF metric \in DOMAIN servedBefore THEN {servedBefore[metric].resp}
          ELSE {Resp("transport")})
         \cup (IF IsMetricsQuery(query)
               THEN {[Resp("ok") EXCEPT !.Result =
                        << MetricResult(
                               BuildDynatraceMetricsQuery(storedMetricsQuery(query)).metricID,
                               data) >>] : data \in ReplayData}
               ELSE {})

\* ph.CustomQueries as an SLI configuration may hold them without a dashboard:
\* well-formed and malformed query strings of each prefix
ConfiguredQueries ==
    Put(Put(Put(Put(Put(Put(Put(Put(Put(Put(<<>>,
        <<"slo">>, <<"SLO", ";", "slo-1">>),
        <<"secpv2">>, <<"SECPV2", ";", "securityProblemSelector", "=", "status(OPEN)">>),
        <<"slo_extra">>, <<"SLO", ";", "slo-1", ";", "x">>),
        <<"mv2_no_query">>, <<"MV2", ";", "Byte">>),
        <<"usql_short">>, <<"USQL", ";", "TABLE", ";", "SELECT city FROM usersession">>),
        <<"usql_table">>,
            <<"USQL", ";", "TABLE", ";", "chrome", ";", "SELECT city FROM usersession">>),
        <<"usql_pie">>,
            <<"USQL", ";", "PIE_CHART", ";", "chrome", ";", "SELECT browser FROM usersession">>),
        <<"pv2">>, <<"PV2", ";", "problemSelector", "=", "status(open)">>),
        <<"bad_escape">>, <<"metricSelector", "=", "builtin", ":", "host.cpu.usage", BadEscape>>),
        <<"cpu">>, <<"metricSelector", "=", "builtin", ":", "host.cpu.usage", ":", "merge(0)",
                     ":", "avg">>)

\* what the backend may answer to the request of GetSLIValue for a configured
\* query: a failure, an empty body, rows of one or two cells, a result whose
\* one data entry has a value or none
ConfiguredResponses(query) ==
    {Resp("ok"), Resp("transport")}
    \cup (IF HasPrefix(query, <<"USQL", ";">>)
          THEN {[Resp("ok") EXCEPT !.Values = rows] : rows \in
                  { << <<Text(<<"chrome">>), Number(3)>> >>,
                    << <<Text(<<"chrome">>)>> >>,
                    << <<Number(3), Text(<<"chrome">>)>> >> }}
          ELSE IF HasPrefix(query, <<"PV2", ";">>) THEN {[Resp("ok") EXCEPT !.TotalCount = 2]}
          ELSE IF IsMetricsQuery(query)
          THEN {[Resp("ok") EXCEPT !.Result =
                   << MetricResult(BuildDynatraceMetricsQuery(storedMetricsQuery(query)).metricID,
                                   << DataEntry(<<>>, values) >>) >>] :
                   values \in {<<>>, <<7>>}}
          ELSE {})

(***************************************************************************)
(* The dashboard pass, QueryDynatraceDashboardForSLIs.                     *)
(***************************************************************************)
NotReturned ==
    [returned |-> FALSE, link |-> <<>>, dashboardJSON |-> NilPtr, dashboardSLI |-> NilPtr,
     dashboardSLO |-> NilPtr, sliResults |-> NilPtr, err |-> NoError]

Return(link, dj, sli, slo, results, err) ==
    [returned |-> TRUE, link |-> link, dashboardJSON |-> dj, dashboardSLI |-> sli,
     dashboardSLO |-> slo, sliResults |-> results, err |-> err]

ReturnNothing(err) == Return(<<>>, NilPtr, NilPtr, NilPtr, NilPtr, err)

dashboardLinkAsLabel(d) ==
    <<ApiURL, "#dashboard;id=">> \o d.ID \o <<";gtf=c_", StartInString, "_", EndInString>>
    \o (IF d.ManagementZone # NilPtr THEN <<";gf=">> \o d.ManagementZone ELSE <<>>)

\* lines 1566-1570 and the branch of loadDynatraceDashboard on the sentinel
QueryDashboardStart ==
    /\ pc = "start"
    /\ dashboard' = IF existingDashboardContent # EmptyString /\ dashboardParam = EmptyString
                    THEN DynatraceConfigDashboardQUERY
                    ELSE dashboardParam
    /\ pc' = IF dashboard' = DynatraceConfigDashboardQUERY THEN "find" ELSE "validate"
    /\ UNCHANGED <<dashboardParam, existingDashboardContent, dashboardJSON, listed, tileIx,
                   sliResults, Indicators, Objectives, TotalScore, ret, requests, served, replay, fn>>

\* loadDynatraceDashboard, option 1: the list is queried, the error is dropped
FindDashboard ==
    /\ pc = "find"
    /\ \E k \in RespKinds, l \in TenantLists :
          /\ listed' = Some([kind |-> k, dashboards |-> l])
          /\ dashboard' = findDynatraceDashboard(
                              [kind |-> k, dashboards |-> IF k = "ok" THEN l ELSE <<>>],
                              KeptnEvent).id
          /\ requests' = Append(requests, Call(Request("dashboards", <<>>),
                                               IF k # "ok" THEN restError(k) ELSE NoError))
    /\ pc' = "validate"
    /\ UNCHANGED <<dashboardParam, existingDashboardContent, dashboardJSON, tileIx,
                   sliResults, Indicators, Objectives, TotalScore, ret, served, replay, fn>>

\* loadDynatraceDashboard, option 2 and the UUID check, with the returns of
\* QueryDynatraceDashboardForSLIs that follow them
ValidateDashboard ==
    /\ pc = "validate"
    /\ IF dashboard = EmptyString
       THEN ret' = ReturnNothing(NoError) /\ pc' = "done"
       ELSE IF ~IsValidUUID(dashboard)
       THEN ret' = ReturnNothing("Error while processing dashboard config: not a valid UUID")
            /\ pc' = "done"
       ELSE ret' = ret /\ pc' = "fetch"
    /\ UNCHANGED <<dashboardParam, existingDashboardContent, dashboard, dashboardJSON, listed,
                   tileIx, sliResults, Indicators, Objectives, TotalScore, requests, served, replay, fn>>

loadError(k) ==
    IF k = "transport" THEN "Error while processing dashboard config: transport error"
    ELSE IF k = "non200" THEN "Error while processing dashboard config: No valid response from Dashboard API"
    ELSE "Error while processing dashboard config: could not decode response payload"

\* the fetch of the dashboard by id, the link label and HasDashboardChanged
FetchDashboard ==
    /\ pc = "fetch"
    /\ \E k \in RespKinds :
          /\ requests' = Append(requests, Call(Request("dashboard", dashboard),
                                               IF k # "ok" THEN restError(k) ELSE NoError))
          /\ IF k # "ok"
             THEN /\ ret' = ReturnNothing(loadError(k))
                  /\ pc' = "done"
                  /\ UNCHANGED <<dashboardJSON, tileIx>>
             ELSE \E d \in Dashboards(dashboard) :
                     /\ dashboardJSON' = Some(d)
                     /\ IF ~HasDashboardChanged(d, existingDashboardContent)
                        THEN /\ ret' = Return(dashboardLinkAsLabel(d), NilPtr, NilPtr, NilPtr,
                                              NilPtr, NoError)
                             /\ pc' = "done"
                             /\ tileIx' = tileIx
                        ELSE /\ ret' = ret
                             /\ pc' = "tiles"
                             /\ tileIx' = 1
    /\ UNCHANGED <<dashboardParam, existingDashboardContent, dashboard, listed,
                   sliResults, Indicators, Objectives, TotalScore, served, replay, fn>>

\* one turn of the loop over dashboardJSON.Tiles; a failed type assertion or an
\* index out of range ends the pass abnormally
ProcessTile ==
    /\ pc = "tiles"
    /\ tileIx <= Len(dashboardJSON[1].Tiles)
    /\ LET d    == dashboardJSON[1]
           tile == d.Tiles[tileIx]
       IN \E env \in TileEnvs(d, tile) :
             \E out \in {processTile(d, tile, env,
                            [sliResults |-> sliResults, Indicators |-> Indicators,
                             Objectives |-> Objectives, TotalScore |-> TotalScore,
                             served |-> served, requests |-> requests, panic |-> FALSE])} :
                /\ sliResults' = out.sliResults
                /\ Indicators' = out.Indicators
                /\ Objectives' = out.Objectives
                /\ TotalScore' = out.TotalScore
                /\ served' = out.served
                /\ requests' = out.requests
                /\ pc' = IF out.panic THEN "panic" ELSE "tiles"
                /\ tileIx' = IF out.panic THEN tileIx ELSE tileIx + 1
    /\ UNCHANGED <<dashboardParam, existingDashboardContent, dashboard, dashboardJSON, listed,
                   ret, replay, fn>>

\* the return after the loop
FinishPass ==
    /\ pc = "tiles"
    /\ tileIx > Len(dashboardJSON[1].Tiles)
    /\ ret' = Return(dashboardLinkAsLabel(dashboardJSON[1]), dashboardJSON,
                     Some(Indicators),
                     Some([Objectives |-> Objectives, TotalScore |-> TotalScore]),
                     sliResults, NoError)
    /\ pc' = "done"
    /\ UNCHANGED <<dashboardParam, existingDashboardContent, dashboard, dashboardJSON, listed,
                   tileIx, sliResults, Indicators, Objectives, TotalScore, requests, served,
                   replay, fn>>

\* GetSLIValue for one indicator, with the SLI definitions of the pass as
\* ph.CustomQueries
CallGetSLIValue ==
    /\ pc = "done"
    /\ \E CustomQueries \in {IF ret.dashboardSLI # NilPtr THEN ret.dashboardSLI[1] ELSE <<>>} :
       \E metric \in ReplayMetrics(ret.dashboardSLI) :
       \E query \in {getTimeseriesConfig(metric, CustomQueries).val} :
       \E resp \in ReplayResponses(metric, query, served) :
          replay' = Some([metric |-> metric, query |-> query, resp |-> resp,
                          result |-> GetSLIValue(metric, CustomQueries, resp)])
    /\ pc' = "replayed"
    /\ UNCHANGED <<dashboardParam, existingDashboardContent, dashboard, dashboardJSON, listed,
                   tileIx, sliResults, Indicators, Objectives, TotalScore, ret, requests, served, fn>>

\* GetSLIValue for one indicator of a configuration without a dashboard, after
\* a pass that has asked the tenant for none
CallGetSLIValueConfigured ==
    /\ pc = "done"
    /\ ret.dashboardSLI = NilPtr
    /\ requests = <<>>
    /\ \E metric \in DOMAIN ConfiguredQueries \cup {ErrorRate, <<"unknown">>} :
       \E query \in {getTimeseriesConfig(metric, ConfiguredQueries).val} :
       \E resp \in ConfiguredResponses(query) :
          replay' = Some([metric |-> metric, query |-> query, resp |-> resp,
                          result |-> GetSLIValue(metric, ConfiguredQueries, resp)])
    /\ pc' = "replayed"
    /\ UNCHANGED <<dashboardParam, existingDashboardContent, dashboard, dashboardJSON, listed,
                   tileIx, sliResults, Indicators, Objectives, TotalScore, ret, requests, served, fn>>

Init ==
    /\ pc = "start"
    /\ \E in \in PassInputs : dashboardParam = in[1] /\ existingDashboardContent = in[2]
    /\ dashboard = EmptyString
    /\ dashboardJSON = NilPtr
    /\ listed = NilPtr
    /\ tileIx = 0
    /\ sliResults = <<>>
    /\ Indicators = <<>>
    /\ Objectives = <<>>
    /\ TotalScore = DefaultTotalScore
    /\ ret = NotReturned
    /\ requests = <<>>
    /\ served = <<>>
    /\ replay = NilPtr
    /\ fn = FnIdle

Next ==
    \/ QueryDashboardStart
    \/ FindDashboard
    \/ ValidateDashboard
    \/ FetchDashboard
    \/ ProcessTile
    \/ FinishPass
    \/ CallGetSLIValue
    \/ CallGetSLIValueConfigured

Spec == Init /\ [][Next]_vars

InitPassIdle ==
    /\ pc = "idle"
    /\ dashboardParam = EmptyString
    /\ existingDashboardContent = EmptyString
    /\ dashboard = EmptyString
    /\ dashboardJSON = NilPtr
    /\ listed = NilPtr
    /\ tileIx = 0
    /\ sliResults = <<>>
    /\ Indicators = <<>>
    /\ Objectives = <<>>
    /\ TotalScore = DefaultTotalScore
    /\ ret = NotReturned
    /\ requests = <<>>
    /\ served = <<>>
    /\ replay = NilPtr

InitUUID ==
    /\ InitPassIdle
    /\ \E u \in UUIDCandidates : fn = [op |-> "IsValidUUID", in |-> u, out |-> Nil, done |-> FALSE]

NextUUID == CallIsValidUUID

SpecUUID == InitUUID /\ [][NextUUID]_vars

InitFind ==
    /\ InitPassIdle
    /\ \E l \in FindLists, ev \in FindEvents, k \in RespKinds :
          /\ k # "ok" => (Len(l) = 1 /\ <<l[1].Prefix, l[1].Parts>> \in FirstListed)
          /\ fn = [op |-> "findDynatraceDashboard",
                   in |-> [resp |-> [kind |-> k, dashboards |-> IF k = "ok" THEN l ELSE <<>>],
                           tenant |-> l, keptnEvent |-> ev],
                   out |-> Nil, done |-> FALSE]

NextFind == CallFindDynatraceDashboard

SpecFind == InitFind /\ [][NextFind]_vars

\* the units, metric ids and raw values scaleData is applied to
ScaleUnits ==
    {<<>>, <<"MicroSecond">>, <<"Byte">>, <<"MilliSecond">>, <<"Count">>, <<"Percent">>,
     <<"NanoSecond">>}

ScaleMetricIDs ==
    { ResponseTimeMetric,
      ResponseTimeMetric \o <<":", "merge(0)", ":", "percentile(50)">>,
      <<"builtin", ":", "service.requestCount.total">>,
      <<"builtin", ":", "host.disk.avail", ":", "merge(0)", ":", "avg">>,
      <<"calc", ":", "service.response.time">>,
      <<>> }

ScaleValues == {0, 1000, 1024, 2048, 1000000}

CallScaleData ==
    /\ fn.op = "scaleData" /\ ~fn.done
    /\ fn' = [fn EXCEPT !.out = scaleData(fn.in.metricID, fn.in.unit, Num(fn.in.value)),
                        !.done = TRUE]
    /\ UNCHANGED passVars

InitScale ==
    /\ InitPassIdle
    /\ \E id \in ScaleMetricIDs, unit \in ScaleUnits, value \in ScaleValues :
          fn = [op |-> "scaleData", in |-> [metricID |-> id, unit |-> unit, value |-> value],
                out |-> Nil, done |-> FALSE]

NextScale == CallScaleData

SpecScale == InitScale /\ [][NextScale]_vars

(***************************************************************************)
(* isMatchingMetricID on pairs of metric ids, with what                    *)
(* GenerateSLISLOFromMetricsAPIQuery emits for a response of one result of *)
(* the first id to a query of the second.                                  *)
(***************************************************************************)
MatchMetricIDs ==
    { <<>>,
      <<"builtin">>,
      <<"builtin", ":", "a">>,
      <<"builtin", ":", "b">>,
      <<"builtin", ":", "a", ":", "filter(dt", "~", "entity)">>,
      <<"builtin", ":", "b", "~">>,
      <<"builtin", "~", "x">>,
      <<"builtin", "~", "x", ":", "a">>,
      <<"ext", ":", "a">>,
      <<"ext", ":", "a", "~">>,
      <<":", "~">> }

MatchQuery(queryMetricID) ==
    [err |-> NoError, metricID |-> queryMetricID, metricUnit |-> <<"Count">>,
     metricQuery |-> <<"metricSelector", "=">> \o queryMetricID,
     fullMetricQuery |-> <<ApiURL, MetricsQueryPath, "?", "metricSelector", "=">> \o queryMetricID,
     entitySelectorSLIDefinition |-> <<>>, filterSLIDefinitionAggregator |-> <<>>]

CallIsMatchingMetricID ==
    /\ fn.op = "isMatchingMetricID" /\ ~fn.done
    /\ fn' = [fn EXCEPT
                !.out = [matching |-> isMatchingMetricID(fn.in.result, fn.in.query),
                         emitted |-> GenerateSLISLOFromMetricsAPIQuery(0, ResponseTimeTitle,
                             MatchQuery(fn.in.query),
                             [Resp("ok") EXCEPT !.Result =
                                 << MetricResult(fn.in.result, << DataEntry(<<>>, <<1>>) >>) >>],
                             [sliResults |-> sliResults, Indicators |-> Indicators,
                              Objectives |-> Objectives, TotalScore |-> TotalScore,
                              served |-> served, requests |-> requests, panic |-> FALSE])],
                !.done = TRUE]
    /\ UNCHANGED passVars

InitMatch ==
    /\ InitPassIdle
    /\ \E result \in MatchMetricIDs, query \in MatchMetricIDs :
          fn = [op |-> "isMatchingMetricID", in |-> [result |-> result, query |-> query],
                out |-> Nil, done |-> FALSE]

NextMatch == CallIsMatchingMetricID

SpecMatch == InitMatch /\ [][NextMatch]_vars

(***************************************************************************)
(* BuildDynatraceMetricsQuery on a selector and parameters, given once as  *)
(* the old fragment selector?parameters and once as the new fragment       *)
(* metricSelector=selector&parameters.                                     *)
(***************************************************************************)
BuildSelectors ==
    { <<"builtin", ":", "a">>,
      <<"builtin", ":", "a", ":", "merge(0)">>,
      <<"builtin", ":", "a", ":", "filter(dt", "~", "entity)">>,
      <<"calc", ":", "service rate">>,
      <<"ext", ":", "a", ",", "ext", ":", "b">> }

BuildParams ==
    { <<>>,
      <<"entitySelector", "=", "type(HOST)">>,
      <<"entitySelector", "=", "type(HOST)", ",", "tag(x)">>,
      <<"scope", "=", "tag(x)">>,
      <<"scope", "=", "tag(x)", ",", "type(SERVICE)">>,
      <<"scope", "=", "type(SERVICE)">>,
      <<"scope", "=">>,
      <<"entitySelector", "=", "type(HOST)", "&", "scope", "=", "tag(x)">>,
      <<"scope", "=", "tag(x)", "&", "scope", "=", "tag(y)">>,
      <<"resolution", "=", "1h">>,
      <<"entitySelector", "=", "type(HOST)", "&", "resolution", "=", "1h">>,
      <<"from", "=", "now-1h">> }

CallBuildDynatraceMetricsQuery ==
    /\ fn.op = "BuildDynatraceMetricsQuery" /\ ~fn.done
    /\ fn' = [fn EXCEPT
                !.out = [legacy  |-> BuildDynatraceMetricsQuery(
                                         fn.in.selector \o <<"?">> \o fn.in.params),
                         current |-> BuildDynatraceMetricsQuery(
                                         <<"metricSelector", "=">> \o fn.in.selector
                                             \o <<"&">> \o fn.in.params)],
                !.done = TRUE]
    /\ UNCHANGED passVars

InitBuild ==
    /\ InitPassIdle
    /\ \E selector \in BuildSelectors, params \in BuildParams :
          fn = [op |-> "BuildDynatraceMetricsQuery",
                in |-> [selector |-> selector, params |-> params],
                out |-> Nil, done |-> FALSE]

NextBuild == CallBuildDynatraceMetricsQuery

SpecBuild == InitBuild /\ [][NextBuild]_vars

(***************************************************************************)
(* replaceQueryParameters on query texts, for handlers of several custom   *)
(* filter lists.                                                           *)
(***************************************************************************)
ReplaceFilters ==
    { <<>>,
      << [Key |-> <<"t","i","e","r">>, Value |-> <<"'", "prod", "'">>] >>,
      << [Key |-> <<"T","i","e","r">>, Value |-> <<"\"", "prod", "\"">>] >>,
      << [Key |-> <<"T","I","E","R">>, Value |-> <<"prod">>] >>,
      << [Key |-> <<"t","i","e","r">>, Value |-> <<"it", "'", "s">>],
         [Key |-> <<"e","n","v">>, Value |-> <<"$","S","T","A","G","E">>] >> }

ReplaceQueries ==
    { <<"metricSelector", "=", "builtin", ":", "a">>,
      <<"tag(", "$","t","i","e","r", ")">>,
      <<"tag(", "$","T","I","E","R", ")">>,
      <<"tag(", "$","T","i","e","r", ")">>,
      <<"tag(", "$","t","I","E","R", ")">>,
      <<"$","t","i","e","r", ",", "$","t","i","e","r">>,
      <<"$","t","i","e","r", ",", "$","e","n","v">>,
      <<"$","E","N","V", ",", "$","S","T","A","G","E">>,
      <<"$","t","i","e","r", ",", "$","P","R","O","J","E","C","T">>,
      <<"$","U","N","K","N","O","W","N", ",", "$","S","E","R","V","I","C","E">>,
      <<"$","z","o","n","e", ",", "$","D","E","P","L","O","Y","M","E","N","T">> }

CallReplaceQueryParameters ==
    /\ fn.op = "replaceQueryParameters" /\ ~fn.done
    /\ fn' = [fn EXCEPT
                !.out = replaceQueryParametersWith(fn.in.customFilters, fn.in.query),
                !.done = TRUE]
    /\ UNCHANGED passVars

InitReplace ==
    /\ InitPassIdle
    /\ \E customFilters \in ReplaceFilters, query \in ReplaceQueries :
          fn = [op |-> "replaceQueryParameters",
                in |-> [customFilters |-> customFilters, query |-> query],
                out |-> Nil, done |-> FALSE]

NextReplace == CallReplaceQueryParameters

SpecReplace == InitReplace /\ [][NextReplace]_vars

(***************************************************************************)
(* The two query builders on a metric of dimensionCount dimensions dim0,   *)
(* dim1, ... of which the data explorer query splits by, and the chart     *)
(* series holds, the dimensions of the indexes in kept.                    *)
(***************************************************************************)
MergeDimensionCounts == 0..3

MergeKept ==
    { <<>>, <<0>>, <<1>>, <<2>>, <<7>>, <<0, 1>>, <<1, 0>>, <<0, 2>>, <<2, 1>>,
      <<0, 1, 2>>, <<2, 0, 1>>, <<0, 0>>, <<1, 7>> }

MergeMetric == <<"builtin", ":", "m">>

MergeDimensionKey(i) == <<"dim", Itoa(i)>>

MergeDefinition(dimensionCount) ==
    [Resp("ok") EXCEPT !.def =
        [Unit |-> <<"Count">>, DefaultAggregation |-> <<"A","V","G">>,
         DimensionDefinitions |->
             [i \in 1..dimensionCount |-> Dimension(MergeDimensionKey(i - 1), <<"Dim">>)],
         EntityType |-> <<"SERVICE">>]]

CallGenerateMetricQuery ==
    /\ fn.op = "GenerateMetricQuery" /\ ~fn.done
    /\ fn' = [fn EXCEPT
                !.out = [explorer |->
                             GenerateMetricQueryFromDataExplorer(
                                 DataQuery(MergeMetric,
                                     [j \in DOMAIN fn.in.kept |-> MergeDimensionKey(fn.in.kept[j])],
                                     NilPtr),
                                 <<>>, MergeDefinition(fn.in.dimensionCount)),
                         chart |->
                             GenerateMetricQueryFromChart(
                                 ChartSeries(MergeMetric, <<"A","V","G">>, "", "SERVICE",
                                     [j \in DOMAIN fn.in.kept |->
                                         SeriesDimension(Itoa(fn.in.kept[j]),
                                             MergeDimensionKey(fn.in.kept[j]), <<>>)]),
                                 <<>>, <<>>, MergeDefinition(fn.in.dimensionCount))],
                !.done = TRUE]
    /\ UNCHANGED passVars

InitMerge ==
    /\ InitPassIdle
    /\ \E dimensionCount \in MergeDimensionCounts, kept \in MergeKept :
          fn = [op |-> "GenerateMetricQuery",
                in |-> [dimensionCount |-> dimensionCount, kept |-> kept],
                out |-> Nil, done |-> FALSE]

NextMerge == CallGenerateMetricQuery

SpecMerge == InitMerge /\ [][NextMerge]_vars

(***************************************************************************)
(* ProcessSLOTile on the SLOs that the tenant may report for an id.        *)
(***************************************************************************)
SLOThresholds == {-1, 0, 98}

SLOThresholdsOLD == {0, 90}

SLOResults ==
    { [NoSLOResult EXCEPT !.Name = <<"My", " ", "SLO">>, !.EvaluatedPercentage = 95,
                          !.Error = error, !.Target = target, !.Warning = warning + 1,
                          !.TargetSuccessOLD = targetOLD, !.TargetWarningOLD = warningOLD + 2] :
          error \in {"NONE", "SLO calculation failed"},
          target \in SLOThresholds, warning \in SLOThresholds,
          targetOLD \in SLOThresholdsOLD, warningOLD \in SLOThresholdsOLD }

CallProcessSLOTile ==
    /\ fn.op = "ProcessSLOTile" /\ ~fn.done
    /\ fn' = [fn EXCEPT
                !.out = ProcessSLOTile(fn.in.sloID, [Resp("ok") EXCEPT !.result = fn.in.result],
                            [sliResults |-> sliResults, Indicators |-> Indicators,
                             Objectives |-> Objectives, TotalScore |-> TotalScore,
                             served |-> served, requests |-> requests, panic |-> FALSE]),
                !.done = TRUE]
    /\ UNCHANGED passVars

InitSLO ==
    /\ InitPassIdle
    /\ \E result \in SLOResults :
          fn = [op |-> "ProcessSLOTile", in |-> [sloID |-> <<"slo-1">>, result |-> result],
                out |-> Nil, done |-> FALSE]

NextSLO == CallProcessSLOTile

SpecSLO == InitSLO /\ [][NextSLO]_vars

(***************************************************************************)
(* ProcessOpenProblemTile on the problem selector that the pass builds for *)
(* a dashboard and a tile, or on none, and on an entity selector.          *)
(***************************************************************************)
ProblemZones == {NilPtr, Some("mz1"), Some("mz2")}

ProblemEntitySelectors == {<<>>, <<"type(SERVICE)">>}

CallProcessOpenProblemTile ==
    /\ fn.op = "ProcessOpenProblemTile" /\ ~fn.done
    /\ fn' = [fn EXCEPT
                !.out = ProcessOpenProblemTile(
                            IF fn.in.withSelector
                            THEN problemSelectorOf("status(open)",
                                     [ManagementZone |-> fn.in.dashboardZone],
                                     [TileFilterManagementZone |-> fn.in.tileZone])
                            ELSE <<>>,
                            fn.in.entitySelector, fn.in.resp,
                            [sliResults |-> sliResults, Indicators |-> Indicators,
                             Objectives |-> Objectives, TotalScore |-> TotalScore,
                             served |-> served, requests |-> requests, panic |-> FALSE]),
                !.done = TRUE]
    /\ UNCHANGED passVars

InitProblem ==
    /\ InitPassIdle
    /\ \E withSelector \in BOOLEAN, dashboardZone \in ProblemZones, tileZone \in ProblemZones,
          entitySelector \in ProblemEntitySelectors, resp \in ProblemResponses :
          fn = [op |-> "ProcessOpenProblemTile",
                in |-> [withSelector |-> withSelector, dashboardZone |-> dashboardZone,
                        tileZone |-> tileZone, entitySelector |-> entitySelector,
                        resp |-> resp],
                out |-> Nil, done |-> FALSE]

NextProblem == CallProcessOpenProblemTile

SpecProblem == InitProblem /\ [][NextProblem]_vars

(***************************************************************************)
(* Properties.  What they speak of: the failed requests of a log, the      *)
(* names of a result sequence, a return without output, the UUID layout    *)
(* and the dashboard name of the specification.                            *)
(***************************************************************************)
FailedCalls(log, apis) == {i \in 1..Len(log) : log[i].api \in apis /\ log[i].err # NoError}

MetricNames(results) == {results[i].Metric : i \in 1..Len(results)}

NoOutput ==
    /\ ret.dashboardJSON = NilPtr
    /\ ret.dashboardSLI = NilPtr
    /\ ret.dashboardSLO = NilPtr
    /\ ret.sliResults = <<>>

NoFetchByID == \A i \in 1..Len(requests) : requests[i].api # "dashboard"

\* 8-4-4-4-12 hexadecimal, version 4, variant one of 8 9 a b A B
LayoutUUID(u) ==
    /\ Len(u) = 36
    /\ \A i \in 1..36 :
          IF i \in {9, 14, 19, 24} THEN u[i] = "-"
          ELSE IF i = 15 THEN u[i] = "4"
          ELSE IF i = 20 THEN u[i] \in {"8", "9", "a", "b", "A", "B"}
          ELSE u[i] \in HexChars

\* a listed dashboard written with the KQG prefix and, among its parts,
\* project=, service= and stage= of the event, in any case
Qualifies(d, keptnEvent) ==
    /\ ToLower(d.Prefix) = <<"k", "q", "g">>
    /\ \A token \in {ProjectKey \o keptnEvent.Project, ServiceKey \o keptnEvent.Service,
                    StageKey \o keptnEvent.Stage} :
          \E j \in 1..Len(d.Parts) : ToLower(d.Parts[j]) = ToLower(token)

\* C1: at the end of a dashboard pass the metric names of the returned
\* SLIResults are exactly the keys of the SLI definition map, and every
\* objective of the SLO document names a key of that map.
IndicatorsMatchResults ==
    (ret.returned /\ ret.dashboardSLI # NilPtr) =>
        /\ MetricNames(ret.sliResults) = DOMAIN ret.dashboardSLI[1]
        /\ \A i \in 1..Len(ret.dashboardSLO[1].Objectives) :
              ret.dashboardSLO[1].Objectives[i].SLI \in DOMAIN ret.dashboardSLI[1]

IndicatorsMatchResultsWitness ==
    /\ ret.returned
    /\ ret.dashboardSLI # NilPtr
    /\ \E i, j \in 1..Len(ret.sliResults) :
          ret.sliResults[i].Success /\ ~ret.sliResults[j].Success
    /\ Len(ret.dashboardSLO[1].Objectives) >= 1

\* C2: a tile one of whose backend calls fails (SLO fetch, problems fetch,
\* metric definition lookup, metrics query, USQL query) adds a result with
\* success=false and a non-empty message, and the loop goes on.
FailedCallYieldsFailedResult ==
    [][ (pc = "tiles" /\ \E i \in (Len(requests) + 1)..Len(requests') : requests'[i].err # NoError)
        => /\ \E j \in (Len(sliResults) + 1)..Len(sliResults') :
                 ~sliResults'[j].Success /\ sliResults'[j].Message # ""
           /\ pc' = "tiles" ]_vars

\* the base indicator name of a tile: sli= of its name (data explorer) or of its title
BaseIndicatorName(tile) ==
    IF tile.TileType = "DATA_EXPLORER" THEN ParsePassAndWarningFromString(tile.Name).sli
    ELSE ParsePassAndWarningFromString(tileTitleOf(tile)).sli

\* the metrics queries that fail in a step, as indexes of the log after it
FailedMetricsQueries ==
    {i \in (Len(requests) + 1)..Len(requests') :
        requests'[i].api = "metrics" /\ requests'[i].err # NoError}

FailedQueryStep ==
    (pc = "tiles" /\ FailedMetricsQueries # {}) =>
        LET tile   == dashboardJSON[1].Tiles[tileIx]
            failed == {j \in (Len(sliResults) + 1)..Len(sliResults') : ~sliResults'[j].Success}
        IN /\ Cardinality(failed) = Cardinality(FailedMetricsQueries)
           /\ \A j \in failed :
                 /\ sliResults'[j].Metric = BaseIndicatorName(tile)
                 /\ sliResults'[j].Value = Num(0)
                 /\ sliResults'[j].Message \in {requests'[i].err : i \in FailedMetricsQueries}
           /\ pc' = "tiles"
           /\ tileIx' = tileIx + 1

\* C3: a metrics query that fails to execute (transport error, non-200,
\* unparseable body, empty result list) yields exactly one SLIResult, named by
\* the base indicator name, with value 0, success=false and the error text as
\* message; the pass goes on with the next tile and returns no error.
FailedQueryYieldsOneResult ==
    /\ [][FailedQueryStep]_vars
    /\ []((ret.returned /\ FailedCalls(requests, {"metrics"}) # {}) =>
             (ret.err = NoError /\ ret.sliResults = sliResults))

FailedQueryYieldsOneResultWitness ==
    /\ ret.returned
    /\ ret.err = NoError
    /\ FailedCalls(requests, {"metrics"}) # {}
    /\ Len(ret.sliResults) >= 2
    /\ ~ret.sliResults[1].Success
    /\ ret.sliResults[1].Value = Num(0)
    /\ ret.sliResults[2].Success

\* C4: a failure of the dashboard list search or of the fetch of the
\* dashboard by ID makes the pass return an error and no output.
LoadFailureSurfaces ==
    (ret.returned /\ FailedCalls(requests, {"dashboards", "dashboard"}) # {}) =>
        (ret.err # NoError /\ NoOutput)

Skipped == ret = ReturnNothing(NoError) /\ NoFetchByID

NotRequested == dashboardParam = EmptyString /\ existingDashboardContent = EmptyString

QueryMode ==
    \/ dashboardParam = DynatraceConfigDashboardQUERY
    \/ dashboardParam = EmptyString /\ existingDashboardContent # EmptyString

NoNameMatches ==
    /\ listed # NilPtr
    /\ \A i \in 1..Len(listed[1].dashboards) : ~Qualifies(listed[1].dashboards[i], KeptnEvent)

\* C5: the pass ends as Skipped (nothing returned, no error, no fetch by ID)
\* exactly when the parameter is empty and nothing is stored, or the parameter
\* is "query" (given or substituted) and no dashboard name matches.
SkippedExactlyWhenNothingToLoad ==
    ret.returned => (Skipped <=> (NotRequested \/ (QueryMode /\ NoNameMatches)))

\* C6: a non-empty dashboard reference that is not a valid UUID makes the
\* pass return an error, without any fetch by ID and without output.
InvalidReferenceFails ==
    (ret.returned /\ dashboard # EmptyString /\ ~LayoutUUID(dashboard)) =>
        (ret.err # NoError /\ NoFetchByID /\ NoOutput)

\* C7: IsValidUUID is true exactly of the strings of the 8-4-4-4-12
\* hexadecimal layout with version 4 and a variant among 8 9 a b A B.
IsValidUUIDIffLayout ==
    (fn.op = "IsValidUUID" /\ fn.done) => (fn.out <=> LayoutUUID(fn.in))

\* C8: findDynatraceDashboard on a dashboard list returns the ID of a
\* dashboard whose KQG-prefixed name has project=, service= and stage= of the
\* event among its ';'-separated tokens, compared without case, in any order
\* and beside other tokens; never one that lacks a token; "" if none qualifies.
FindReturnsQualifying ==
    (fn.op = "findDynatraceDashboard" /\ fn.done /\ fn.in.resp.kind = "ok") =>
        LET ds == fn.in.resp.dashboards
            ev == fn.in.keptnEvent
            qualifying == {i \in 1..Len(ds) : Qualifies(ds[i], ev)}
        IN /\ qualifying # {} => \E i \in qualifying : fn.out.id = ds[i].ID
           /\ qualifying = {} => fn.out.id = EmptyString
           /\ \A i \in 1..Len(ds) : i \notin qualifying => fn.out.id # ds[i].ID
           /\ fn.out.err = NoError

FindReturnsQualifyingWitness ==
    /\ fn.op = "findDynatraceDashboard" /\ fn.done /\ fn.in.resp.kind = "ok"
    /\ Len(fn.in.resp.dashboards) = 2
    /\ ~Qualifies(fn.in.resp.dashboards[1], fn.in.keptnEvent)
    /\ Qualifies(fn.in.resp.dashboards[2], fn.in.keptnEvent)
    /\ fn.in.resp.dashboards[2].Parts[1] = ToUpper(ProjectKey \o <<"a","b">>)
    /\ Len(fn.in.resp.dashboards[2].Parts) = 3
    /\ fn.out.id = fn.in.resp.dashboards[2].ID

\* the fetched dashboard serializes to the stored content and holds the marker
Unchanged ==
    /\ MarshalIndent(dashboardJSON[1]) = existingDashboardContent
    /\ Contains(MarshalIndent(dashboardJSON[1]), ParseOnChangeMarker)

\* C9: a fetched dashboard whose serialized content equals the stored one
\* and holds KQG.QueryBehavior=ParseOnChange is not parsed: the link label
\* alone is returned, no tile is processed, no tile request is made, no result
\* exists; any other fetched dashboard has its tiles parsed.
UnchangedShortCircuit ==
    dashboardJSON # NilPtr =>
        IF Unchanged
        THEN /\ ret = Return(dashboardLinkAsLabel(dashboardJSON[1]), NilPtr, NilPtr, NilPtr,
                             NilPtr, NoError)
             /\ tileIx = 0
             /\ \A i \in 1..Len(requests) : requests[i].api \in {"dashboards", "dashboard"}
             /\ sliResults = <<>> /\ Indicators = <<>> /\ Objectives = <<>>
        ELSE /\ tileIx >= 1
             /\ ret.returned =>
                   /\ ret.dashboardJSON = dashboardJSON
                   /\ ret.dashboardSLI # NilPtr
                   /\ tileIx = Len(dashboardJSON[1].Tiles) + 1

UnchangedShortCircuitWitness ==
    /\ dashboardJSON # NilPtr
    /\ Unchanged
    /\ Len(dashboardJSON[1].Tiles) >= 1
    /\ ret.returned
    /\ ret.link # <<>>
    /\ ret.dashboardSLI = NilPtr

\* C10: GetSLIValue for an indicator stored as MV2;<unit>;<query>, answered
\* with the response the pass had for the same request, returns the value of
\* the indicator's SLIResult.
RoundTripMV2 ==
    (/\ replay # NilPtr
     /\ HasPrefix(replay[1].query, <<"MV2", ";">>)
     /\ replay[1].metric \in DOMAIN served
     /\ replay[1].resp = served[replay[1].metric].resp
     /\ replay[1].result.requests = <<served[replay[1].metric].request>>) =>
        /\ ~replay[1].result.panic
        /\ replay[1].result.err = NoError
        /\ SameValue(replay[1].result.value, served[replay[1].metric].value)

\* the stored query carries one of the prefixes USQL; SLO; PV2; SECPV2;
IsPrefixedQuery(query) ==
    \E prefix \in {"USQL", "SLO", "PV2", "SECPV2"} : HasPrefix(query, <<prefix, ";">>)

\* C11: GetSLIValue on a stored query with a USQL, SLO, PV2 or SECPV2 prefix
\* does not reject it as malformed and issues the backend request the pass
\* has issued for the indicator.
RoundTripPrefixed ==
    (/\ replay # NilPtr
     /\ IsPrefixedQuery(replay[1].query)
     /\ replay[1].metric \in DOMAIN served) =>
        /\ ~replay[1].result.panic
        /\ replay[1].result.requests = <<served[replay[1].metric].request>>

\* the replay is that of a legacy bare or MV2 query answered with status 200
MetricsReplay ==
    /\ replay # NilPtr
    /\ replay[1].query # <<>>
    /\ IsMetricsQuery(replay[1].query)
    /\ replay[1].result.requests # <<>>
    /\ replay[1].resp.kind = "ok"

\* the results of the response whose metric id matches that of the stored query
MatchingResults ==
    {i \in 1..Len(replay[1].resp.Result) :
        isMatchingMetricID(replay[1].resp.Result[i].MetricID,
            BuildDynatraceMetricsQuery(storedMetricsQuery(replay[1].query)).metricID)}

FirstMatchingResult ==
    replay[1].resp.Result[CHOOSE i \in MatchingResults : \A j \in MatchingResults : i <= j]

ReplayFails ==
    ~replay[1].result.panic /\ replay[1].result.err # NoError /\ replay[1].result.value = Num(0)

ReplayReturnsValue == ~replay[1].result.panic /\ replay[1].result.err = NoError

\* C12: GetSLIValue for a legacy bare or MV2 query fails with an error and no
\* value if the first result of a matching metric id has more than one data
\* entry, returns a value only if it has exactly one, and fails if no result
\* matches.
AmbiguousResultFails ==
    MetricsReplay =>
        /\ MatchingResults = {} => ReplayFails
        /\ MatchingResults # {} =>
              /\ Len(FirstMatchingResult.Data) > 1 => ReplayFails
              /\ ReplayReturnsValue => Len(FirstMatchingResult.Data) = 1

AmbiguousResultFailsWitness ==
    /\ MetricsReplay
    /\ HasPrefix(replay[1].query, <<"MV2", ";">>)
    /\ MatchingResults # {}
    /\ Len(FirstMatchingResult.Data) = 2
    /\ ReplayFails
    /\ replay[1].result.requests # <<>>

\* the scaling by the unit, and by the metric id if there is no unit
ScaledByUnit(metricID, unit, value) ==
    IF unit = <<"MicroSecond">> THEN Div(value, 1000)
    ELSE IF unit = <<"Byte">> THEN Div(value, 1024)
    ELSE IF unit # <<>> THEN value
    ELSE IF Contains(metricID, ResponseTimeMetric) THEN Div(value, 1000)
    ELSE value

\* C13: scaleData divides a MicroSecond value by 1000 and a Byte value by
\* 1024, returns a value of any other explicit unit unchanged whatever its
\* metric id, and looks at the metric id only if there is no unit.
ScalingDecidedByUnit ==
    (fn.op = "scaleData" /\ fn.done) =>
        SameValue(fn.out, ScaledByUnit(fn.in.metricID, fn.in.unit, Num(fn.in.value)))


\* the endpoint the prefix of a stored query selects
EndpointOf(query) ==
    IF HasPrefix(query, <<"USQL", ";">>) THEN "usql"
    ELSE IF HasPrefix(query, <<"SLO", ";">>) THEN "slo"
    ELSE IF HasPrefix(query, <<"PV2", ";">>) THEN "problems"
    ELSE IF HasPrefix(query, <<"SECPV2", ";">>) THEN "securityProblems"
    ELSE "metrics"

\* the indicator name has a custom query or is one of the five defaults
HasStoredQuery(metric, query) ==
    getTimeseriesConfig(metric, <<>>).err = NoError \/ query # <<>>

WellFormedQuery(query) ==
    IF HasPrefix(query, <<"USQL", ";">>) THEN Len(Split(query, ";")) = 4
    ELSE IF \E prefix \in {"SLO", "PV2", "SECPV2"} : HasPrefix(query, <<prefix, ";">>)
    THEN Len(Split(query, ";")) = 2
    ELSE IF HasPrefix(query, <<"MV2", ";">>)
    THEN /\ IndexOf(SubSeq(query, 3, Len(query)), ";") # 0
         /\ BuildDynatraceMetricsQuery(storedMetricsQuery(query)).err = NoError
    ELSE BuildDynatraceMetricsQuery(query).err = NoError

GetSLIValueAlwaysReturns ==
    replay # NilPtr => ~replay[1].result.panic

\* the accumulated output of the pass at the start of a turn of the tile loop
Accumulated ==
    [sliResults |-> sliResults, Indicators |-> Indicators, Objectives |-> Objectives,
     TotalScore |-> TotalScore, served |-> served, requests |-> requests, panic |-> FALSE]

\* the elements of a sequence at the positions of a set, in order
RECURSIVE Keep(_, _, _)
Keep(seq, positions, i) ==
    IF i > Len(seq) THEN <<>>
    ELSE (IF i \in positions THEN <<seq[i]>> ELSE <<>>) \o Keep(seq, positions, i + 1)

\* the queries or series of a tile whose definition lookup fails under env
FailedLookups(env) == {i \in DOMAIN env.queries : env.queries[i].def.kind # "ok"}

\* the tile without the queries and series of a set of positions
TileWithout(tile, positions) ==
    [tile EXCEPT !.Queries = Keep(@, DOMAIN @ \ positions, 1),
                 !.Series = Keep(@, DOMAIN @ \ positions, 1),
                 !.AssignedEntities = Keep(@, DOMAIN @ \ positions, 1)]

EnvWithout(env, positions) ==
    [env EXCEPT !.queries = Keep(@, DOMAIN @ \ positions, 1),
                !.slo = Keep(@, DOMAIN @ \ positions, 1)]

\* no metrics request follows the failed definition lookups of a log
NoQueryAfterFailedLookup(log) ==
    \A i \in DOMAIN log :
        (log[i].api = "describe" /\ log[i].err # NoError /\ i < Len(log)) =>
            log[i + 1].api # "metrics"

\* C16: a query or series whose metric definition lookup fails has no metrics
\* request and leaves the SLIResults, the SLI map and the objectives as the
\* tile without it does, the later queries, series and tiles are processed,
\* and the pass returns no error.
FailedLookupSkipsQuery ==
    /\ (pc = "tiles" /\ tileIx <= Len(dashboardJSON[1].Tiles)) =>
          \A env \in TileEnvs(dashboardJSON[1], dashboardJSON[1].Tiles[tileIx]) :
             FailedLookups(env) # {} =>
                With(processTile(dashboardJSON[1], dashboardJSON[1].Tiles[tileIx], env,
                                 Accumulated), LAMBDA out :
                With(processTile(dashboardJSON[1],
                                 TileWithout(dashboardJSON[1].Tiles[tileIx], FailedLookups(env)),
                                 EnvWithout(env, FailedLookups(env)), Accumulated), LAMBDA rest :
                    /\ out.sliResults = rest.sliResults
                    /\ out.Indicators = rest.Indicators
                    /\ out.Objectives = rest.Objectives
                    /\ ~out.panic
                    /\ NoQueryAfterFailedLookup(out.requests)))
    /\ NoQueryAfterFailedLookup(requests)
    /\ (pc = "done" /\ FailedCalls(requests, {"describe"}) # {}) => ret.err = NoError

FailedLookupSkipsQueryWitness ==
    /\ pc = "done"
    /\ ret.err = NoError
    /\ Len(requests) >= 4
    /\ requests[Len(requests) - 2].api = "describe"
    /\ requests[Len(requests) - 2].err # NoError
    /\ requests[Len(requests) - 1].api = "describe"
    /\ requests[Len(requests)].api = "metrics"
    /\ Len(sliResults) = 1

\* no title or name of the tile carries an sli= directive
CarriesNoSLI(tile) ==
    \A title \in {tile.Name, tile.CustomName, tile.FilterConfigCustomName} :
        ~Contains(title.text, <<"sli=">>)

\* the turn of the tile loop leaves the log of requests and the output alone
\* and goes on to the next tile
TileSkipped ==
    /\ requests' = requests
    /\ sliResults' = sliResults
    /\ Indicators' = Indicators
    /\ Objectives' = Objectives
    /\ pc' = "tiles"
    /\ tileIx' = tileIx + 1

TileTurn == pc = "tiles" /\ tileIx <= Len(dashboardJSON[1].Tiles)

\* C17: a tile of a type other than HEADER, SYNTHETIC_TESTS and MARKDOWN whose
\* title carries no sli= directive is skipped: no backend call, no SLIResult,
\* no SLI map entry, no SLODefinition.
UnnamedTileSkipped ==
    [][(/\ TileTurn
        /\ dashboardJSON[1].Tiles[tileIx].TileType \notin {"HEADER", "SYNTHETIC_TESTS", "MARKDOWN"}
        /\ CarriesNoSLI(dashboardJSON[1].Tiles[tileIx])) => TileSkipped]_vars

\* C17 (amended): a DATA_EXPLORER, CUSTOM_CHARTING or DTAQL tile whose title
\* carries no sli= directive is skipped: no backend call, no SLIResult, no SLI
\* map entry, no SLODefinition.
UnnamedQueryTileSkipped ==
    [][(/\ TileTurn
        /\ dashboardJSON[1].Tiles[tileIx].TileType \in {"DATA_EXPLORER", "CUSTOM_CHARTING", "DTAQL"}
        /\ CarriesNoSLI(dashboardJSON[1].Tiles[tileIx])) => TileSkipped]_vars

UnnamedQueryTileSkippedWitness ==
    /\ pc = "tiles"
    /\ tileIx = 2
    /\ dashboardJSON[1].Tiles[1].TileType = "DTAQL"
    /\ CarriesNoSLI(dashboardJSON[1].Tiles[1])
    /\ Len(requests) = 1
    /\ sliResults = <<>>

\* C18: after a dashboard pass no two SLIResults carry the same indicator name
\* and no two SLODefinitions name the same indicator.
UniqueIndicatorNames ==
    (pc = "done" /\ ret.dashboardSLO # NilPtr) =>
        /\ \A i, j \in DOMAIN ret.sliResults :
              ret.sliResults[i].Metric = ret.sliResults[j].Metric => i = j
        /\ \A i, j \in DOMAIN ret.dashboardSLO[1].Objectives :
              ret.dashboardSLO[1].Objectives[i].SLI = ret.dashboardSLO[1].Objectives[j].SLI => i = j

Reverse(seq) == [i \in 1..Len(seq) |-> seq[Len(seq) + 1 - i]]

\* the SLIResults a turn of the tile loop adds for a tile under env
NewResults(tile, env) ==
    With(processTile(dashboardJSON[1], tile, env, Accumulated).sliResults, LAMBDA results :
        SubSeq(results, Len(sliResults) + 1, Len(results)))

\* the positions of the SLO entities, queries or series of a tile
PartsOf(tile) ==
    DOMAIN tile.AssignedEntities \cup DOMAIN tile.Queries \cup DOMAIN tile.Series

\* the results of each entity, query or series of a tile on its own, from
\* position i on
RECURSIVE ResultsByPart(_, _, _)
ResultsByPart(tile, env, i) ==
    IF i \notin PartsOf(tile) THEN <<>>
    ELSE NewResults(TileWithout(tile, PartsOf(tile) \ {i}), EnvWithout(env, PartsOf(tile) \ {i}))
         \o ResultsByPart(tile, env, i + 1)

\* the answers of the backend with the rows of every result in reverse order
ReverseData(result) == [result EXCEPT !.Data = Reverse(@)]

ReverseResults(resp) == [resp EXCEPT !.Result = [r \in DOMAIN @ |-> ReverseData(@[r])]]

ReverseMetrics(queryEnv) == [queryEnv EXCEPT !.metrics = ReverseResults(@)]

ReverseRows(env) ==
    [env EXCEPT !.queries = [i \in DOMAIN @ |-> ReverseMetrics(@[i])],
                !.usql.Values = Reverse(@)]

\* C19: the SLIResults of a pass are in tile order, within a tile in the order
\* of its SLO entities, queries or series, and within a query in the order of
\* the rows the backend returned.
ResultsInOrder ==
    TileTurn =>
        \A env \in TileEnvs(dashboardJSON[1], dashboardJSON[1].Tiles[tileIx]) :
            With(dashboardJSON[1].Tiles[tileIx], LAMBDA tile :
            With(processTile(dashboardJSON[1], tile, env, Accumulated), LAMBDA out :
                ~out.panic =>
                    /\ HasPrefix(out.sliResults, sliResults)
                    /\ PartsOf(tile) # {} => NewResults(tile, env) = ResultsByPart(tile, env, 1)
                    /\ (/\ tile.TileType \in {"DATA_EXPLORER", "CUSTOM_CHARTING", "DTAQL"}
                        /\ Cardinality(PartsOf(tile)) <= 1) =>
                          NewResults(tile, ReverseRows(env)) = Reverse(NewResults(tile, env))))

ResultsInOrderWitness ==
    /\ pc = "done"
    /\ ret.dashboardJSON # NilPtr
    /\ Len(dashboardJSON[1].Tiles) = 2
    /\ dashboardJSON[1].Tiles[1].TileType = "OPEN_PROBLEMS"
    /\ Len(ret.sliResults) = 4
    /\ ret.sliResults[1].Metric = <<"problems">>
    /\ ret.sliResults[3].Metric # ret.sliResults[4].Metric
    /\ ret.sliResults[3].Value # ret.sliResults[4].Value

\* the title the pass parses for a tile of queries or series, lines 1712 and 1745
PartTitle(tile) ==
    IF tile.TileType = "DATA_EXPLORER" THEN ParsePassAndWarningFromString(tile.Name)
    ELSE ParsePassAndWarningFromString(tileTitleOf(tile))

\* the query generated for the i-th query or series of a tile
PartQuery(tile, i, defResp) ==
    IF tile.TileType = "DATA_EXPLORER"
    THEN GenerateMetricQueryFromDataExplorer(tile.Queries[i],
             tileManagementZoneFilterOf(dashboardJSON[1], tile), defResp)
    ELSE GenerateMetricQueryFromChart(tile.Series[i],
             tileManagementZoneFilterOf(dashboardJSON[1], tile), tile.FiltersPerEntityType, defResp)

PartDimensions(tile, i) ==
    IF tile.TileType = "DATA_EXPLORER" THEN Len(tile.Queries[i].SplitBy)
    ELSE Len(tile.Series[i].Dimensions)

\* what GenerateSLISLOFromMetricsAPIQuery emits for the i-th query or series
Emitted(tile, i, queryEnv) ==
    GenerateSLISLOFromMetricsAPIQuery(PartDimensions(tile, i), PartTitle(tile),
        PartQuery(tile, i, queryEnv.def), queryEnv.metrics,
        [Accumulated EXCEPT !.sliResults = <<>>, !.Indicators = <<>>, !.Objectives = <<>>])

\* the results of a response whose metric id matches that of the query
MatchingOf(resp, metricID) ==
    {r \in DOMAIN resp.Result : isMatchingMetricID(resp.Result[r].MetricID, metricID)}

\* every row has dimension values and any two rows differ in each of them
DistinctRows(data) ==
    \A k, l \in DOMAIN data :
        /\ data[k].Dimensions # <<>>
        /\ Len(data[k].Dimensions) = Len(data[l].Dimensions)
        /\ k # l => \A p \in DOMAIN data[k].Dimensions :
                       data[k].Dimensions[p] # data[l].Dimensions[p]

\* out holds one result, one SLI map entry and one objective per row of data;
\* restricted: the SLI map entry of a row holds a dimension value of that row
\* and none of another row
OnePerRow(data, out, title, metricUnit, restricted) ==
    /\ Len(out.sliResults) = Len(data)
    /\ Cardinality(DOMAIN out.Indicators) = Len(data)
    /\ Len(out.Objectives) = Len(data)
    /\ \A k \in DOMAIN data :
          /\ out.sliResults[k].Success
          /\ out.sliResults[k].Metric \in DOMAIN out.Indicators
          /\ HasPrefix(out.Indicators[out.sliResults[k].Metric],
                       <<"MV2", ";">> \o metricUnit \o <<";">>)
          /\ out.Objectives[k] = SLO(out.sliResults[k].Metric, title.weight, title.key,
                                     title.pass, title.warning)
          /\ IF Len(data) = 1
             THEN out.sliResults[k].Metric = CleanIndicatorName(title.sli)
             ELSE restricted =>
                  /\ \E p \in DOMAIN data[k].Dimensions :
                        Contains(out.Indicators[out.sliResults[k].Metric],
                                 data[k].Dimensions[p])
                  /\ \A l \in DOMAIN data : \A p \in DOMAIN data[l].Dimensions :
                        (l # k /\ Contains(out.Indicators[out.sliResults[k].Metric],
                                           data[l].Dimensions[p])) =>
                            Contains(data[k].Dimensions[p], data[l].Dimensions[p])

\* the first matching result of the answer to the i-th query or series
MatchedData(tile, i, queryEnv) ==
    queryEnv.metrics.Result[CHOOSE r \in
        MatchingOf(queryEnv.metrics, PartQuery(tile, i, queryEnv.def).metricID) : TRUE].Data

\* the answers of the backend to the queries and series of the tile of this
\* turn that are successful and have one matching result, of one data row or of
\* several rows of distinct dimension values: [tile, i, queryEnv]
RowAnswers ==
    IF /\ TileTurn
       /\ dashboardJSON[1].Tiles[tileIx].TileType \in {"DATA_EXPLORER", "CUSTOM_CHARTING"}
       /\ PartTitle(dashboardJSON[1].Tiles[tileIx]).sli # <<>>
    THEN {a \in {[tile |-> dashboardJSON[1].Tiles[tileIx], i |-> i, queryEnv |-> env.queries[i]] :
                    env \in TileEnvs(dashboardJSON[1], dashboardJSON[1].Tiles[tileIx]),
                    i \in PartsOf(dashboardJSON[1].Tiles[tileIx])} :
            /\ a.queryEnv.def.kind = "ok"
            /\ PartQuery(a.tile, a.i, a.queryEnv.def).err = NoError
            /\ ExecuteMetricsAPIQuery(a.queryEnv.metrics).err = NoError
            /\ Cardinality(MatchingOf(a.queryEnv.metrics,
                                      PartQuery(a.tile, a.i, a.queryEnv.def).metricID)) = 1
            /\ \/ Len(MatchedData(a.tile, a.i, a.queryEnv)) = 1
               \/ DistinctRows(MatchedData(a.tile, a.i, a.queryEnv))}
    ELSE {}

MatchedAnswers ==
    IF /\ TileTurn
       /\ dashboardJSON[1].Tiles[tileIx].TileType \in {"DATA_EXPLORER", "CUSTOM_CHARTING"}
       /\ PartTitle(dashboardJSON[1].Tiles[tileIx]).sli # <<>>
    THEN {a \in {[tile |-> dashboardJSON[1].Tiles[tileIx], i |-> i, queryEnv |-> env.queries[i]] :
                    env \in TileEnvs(dashboardJSON[1], dashboardJSON[1].Tiles[tileIx]),
                    i \in PartsOf(dashboardJSON[1].Tiles[tileIx])} :
            /\ a.queryEnv.def.kind = "ok"
            /\ PartQuery(a.tile, a.i, a.queryEnv.def).err = NoError
            /\ ExecuteMetricsAPIQuery(a.queryEnv.metrics).err = NoError
            /\ Cardinality(MatchingOf(a.queryEnv.metrics,
                                      PartQuery(a.tile, a.i, a.queryEnv.def).metricID)) = 1}
    ELSE {}

\* base followed by _ and the dimension values at the 1-based positions from p
\* on, stride apart
RECURSIVE SuffixedName(_, _, _, _)
SuffixedName(base, dims, p, stride) ==
    IF p > Len(dims) THEN base
    ELSE SuffixedName(base \o <<"_">> \o dims[p], dims, p + stride, stride)

\* C21: if a matching result has more than one data row, the indicator name
\* of a row is the cleaned base name followed by _ and the dimension values at
\* indexes 0, 2, 4, ... if the row has twice as many dimension values as the
\* chart or split-by has dimensions, and by every dimension value otherwise;
\* no read of the entity id at index+1 leaves the dimension list.
RowNamesByStride ==
    \A a \in MatchedAnswers :
        With(MatchedData(a.tile, a.i, a.queryEnv), LAMBDA data :
        With(Emitted(a.tile, a.i, a.queryEnv), LAMBDA out :
            Len(data) > 1 =>
                /\ ~out.panic
                /\ Len(out.sliResults) = Len(data)
                /\ \A k \in DOMAIN data :
                      out.sliResults[k].Metric =
                          CleanIndicatorName(SuffixedName(PartTitle(a.tile).sli,
                              data[k].Dimensions, 1,
                              IF Len(data[k].Dimensions) = 2 * PartDimensions(a.tile, a.i)
                              THEN 2 ELSE 1))))

RowNamesByStrideWitness ==
    /\ pc = "done"
    /\ ret.dashboardSLI # NilPtr
    /\ Len(dashboardJSON[1].Tiles) = 1
    /\ dashboardJSON[1].Tiles[1].TileType = "CUSTOM_CHARTING"
    /\ Len(dashboardJSON[1].Tiles[1].Series) = 1
    /\ Len(dashboardJSON[1].Tiles[1].Series[1].Dimensions) = 1
    /\ Len(ret.sliResults) = 2
    /\ ret.sliResults[1].Metric =
          CleanIndicatorName(PartTitle(dashboardJSON[1].Tiles[1]).sli) \o <<"_", "log", "in">>

\* the part of a metric id before its first ':'
RECURSIVE BeforeFirstColon(_)
BeforeFirstColon(id) ==
    IF id = <<>> \/ Head(id) = ":" THEN <<>>
    ELSE <<Head(id)>> \o BeforeFirstColon(Tail(id))

HasAtom(id, atom) == \E p \in DOMAIN id : id[p] = atom

EqualOrFuzzy(result, expected) ==
    \/ result = expected
    \/ /\ HasAtom(result, "~")
       /\ HasAtom(result, ":")
       /\ BeforeFirstColon(result) = BeforeFirstColon(expected)

\* C22: isMatchingMetricID is true exactly when the ids are equal, or the
\* result id holds a ~ and a : and both ids are equal before their first ':';
\* a result that does not match contributes no SLIResult, no SLI map entry
\* and no SLODefinition.
MatchesEqualOrFuzzy ==
    (fn.op = "isMatchingMetricID" /\ fn.done) =>
        /\ fn.out.matching <=> EqualOrFuzzy(fn.in.result, fn.in.query)
        /\ ~EqualOrFuzzy(fn.in.result, fn.in.query) =>
              /\ fn.out.emitted.sliResults = <<>>
              /\ fn.out.emitted.Indicators = <<>>
              /\ fn.out.emitted.Objectives = <<>>
        /\ EqualOrFuzzy(fn.in.result, fn.in.query) => Len(fn.out.emitted.sliResults) = 1

MatchesEqualOrFuzzyWitness ==
    /\ fn.op = "isMatchingMetricID"
    /\ fn.done
    /\ fn.in.result # fn.in.query
    /\ fn.out.matching
    /\ Len(fn.out.emitted.sliResults) = 1
    /\ Len(fn.out.emitted.Objectives) = 1

BuildDone == fn.op = "BuildDynatraceMetricsQuery" /\ fn.done

\* key=value parts of the query string of a URL, in order
URLParts(url) == Split(SubSeq(url, IndexOf(url, "?") + 1, Len(url)), "&")

\* C23: the old fragment selector?parameters gives the URL of the new
\* fragment metricSelector=selector&parameters and the selector as metric id;
\* the new fragment's metric id is its metricSelector value; every URL holds
\* resolution=Inf and the from and to bounds.
LegacyAsCurrent ==
    BuildDone =>
        /\ fn.out.legacy.err = NoError
        /\ fn.out.current.err = NoError
        /\ fn.out.legacy.url = fn.out.current.url
        /\ fn.out.legacy.metricID = fn.in.selector
        /\ fn.out.current.metricID = fn.in.selector
        /\ \A url \in {fn.out.legacy.url, fn.out.current.url} :
              /\ HasPrefix(url, <<ApiURL, MetricsQueryPath, "?">>)
              /\ <<"metricSelector", "=">> \o QueryEscape(fn.in.selector) \in Range(URLParts(url))
              /\ <<"resolution", "=", "Inf">> \in Range(URLParts(url))
              /\ <<"from", "=", StartInString>> \in Range(URLParts(url))
              /\ <<"to", "=", EndInString>> \in Range(URLParts(url))

LegacyAsCurrentWitness ==
    /\ BuildDone
    /\ fn.in.selector = <<"builtin", ":", "a", ":", "merge(0)">>
    /\ fn.in.params = <<"entitySelector", "=", "type(HOST)", "&", "resolution", "=", "1h">>
    /\ fn.out.legacy.metricID = fn.in.selector
    /\ fn.out.legacy.url =
          <<ApiURL, MetricsQueryPath, "?",
            "entitySelector", "=", "type(HOST)", "&",
            "from", "=", StartInString, "&",
            "metricSelector", "=", "builtin", "%3A", "a", "%3A", "merge(0)", "&",
            "resolution", "=", "1h", "&", "resolution", "=", "Inf", "&",
            "to", "=", EndInString>>

\* the values that a fragment's parameters give to a key, in order
RECURSIVE ValuesOfKey(_, _)
ValuesOfKey(parts, key) ==
    IF parts = <<>> THEN <<>>
    ELSE (IF Head(parts) # <<>> /\ Head(Head(parts)) = key
          THEN << SubSeq(Head(parts), 3, Len(Head(parts))) >>
          ELSE <<>>) \o ValuesOfKey(Tail(parts), key)

ScopeOf(params) ==
    IF ValuesOfKey(Split(params, "&"), "scope") = <<>> THEN <<>>
    ELSE ValuesOfKey(Split(params, "&"), "scope")[1]

ConvertedScope(scope) ==
    IF \E p \in DOMAIN scope : scope[p] = "type(SERVICE)" THEN scope
    ELSE scope \o <<",", "type(SERVICE)">>

\* C24: a non-empty scope becomes an entitySelector of the scope value,
\* followed by ,type(SERVICE) unless it holds type(SERVICE), and the URL holds
\* no scope; without scope the entitySelector is the fragment's own.
ScopeConverted ==
    BuildDone =>
        \A url \in {fn.out.legacy.url, fn.out.current.url} :
            IF ScopeOf(fn.in.params) # <<>>
            THEN /\ <<"entitySelector", "=">> \o QueryEscape(ConvertedScope(ScopeOf(fn.in.params)))
                       \in Range(URLParts(url))
                 /\ ValuesOfKey(URLParts(url), "scope") = <<>>
            ELSE ValuesOfKey(URLParts(url), "entitySelector") =
                     [k \in DOMAIN ValuesOfKey(Split(fn.in.params, "&"), "entitySelector") |->
                         QueryEscape(ValuesOfKey(Split(fn.in.params, "&"), "entitySelector")[k])]

\* every occurrence of old in s, in any letter case, replaced by new
RECURSIVE ReplaceAnyCase(_, _, _)
ReplaceAnyCase(s, old, new) ==
    IF Len(s) < Len(old) THEN s
    ELSE IF ToLower(SubSeq(s, 1, Len(old))) = ToLower(old)
         THEN new \o ReplaceAnyCase(SubSeq(s, Len(old) + 1, Len(s)), old, new)
         ELSE <<Head(s)>> \o ReplaceAnyCase(Tail(s), old, new)

WithoutQuotes(value) == SelectSeq(value, LAMBDA a : a \notin {"'", "\""})

RECURSIVE FiltersAnyCase(_, _)
FiltersAnyCase(query, filters) ==
    IF filters = <<>> THEN query
    ELSE FiltersAnyCase(
             ReplaceAnyCase(query, <<"$">> \o Head(filters).Key, WithoutQuotes(Head(filters).Value)),
             Tail(filters))

ReplaceDone == fn.op = "replaceQueryParameters" /\ fn.done

\* C25: replaceQueryParameters replaces every $KEY of each custom filter, the
\* key in any letter case, by the filter's value without ' and ", and then
\* the placeholders of the delivery context; other tokens stay as they are.
ReplacesAnyCase ==
    ReplaceDone =>
        fn.out = ReplaceKeptnPlaceholders(FiltersAnyCase(fn.in.query, fn.in.customFilters), KeptnEvent)

\* the indexes of the merge clauses of a query, in the order of the query
RECURSIVE MergedIndexes(_)
MergedIndexes(query) ==
    IF query = <<>> THEN <<>>
    ELSE (IF Len(query) >= 3 /\ SubSeq(query, 1, 2) = <<":", "merge(">> /\ query[4] = ")"
          THEN << query[3] >> ELSE <<>>) \o MergedIndexes(Tail(query))

\* the indexes from i down to 0 that are not in keptIndexes
RECURSIVE NotKeptDescending(_, _)
NotKeptDescending(i, keptIndexes) ==
    IF i < 0 THEN <<>>
    ELSE (IF i \in keptIndexes THEN <<>> ELSE << Itoa(i) >>)
         \o NotKeptDescending(i - 1, keptIndexes)

MergeDone == fn.op = "GenerateMetricQuery" /\ fn.done

\* C26: for a metric of D dimensions both builders emit one :merge(i) for
\* each index i of 0..D-1 that is not kept, none for a kept one, in
\* descending order of the index.
MergesNotKeptDescending ==
    MergeDone =>
        /\ fn.out.explorer.err = NoError
        /\ fn.out.chart.err = NoError
        /\ MergedIndexes(fn.out.explorer.metricQuery) =
               NotKeptDescending(fn.in.dimensionCount - 1, Range(fn.in.kept))
        /\ MergedIndexes(fn.out.chart.metricQuery) =
               NotKeptDescending(fn.in.dimensionCount - 1, Range(fn.in.kept))

MergesNotKeptDescendingWitness ==
    /\ MergeDone
    /\ fn.in.dimensionCount = 3
    /\ fn.in.kept = <<1>>
    /\ MergedIndexes(fn.out.explorer.metricQuery) = <<"2", "0">>
    /\ MergedIndexes(fn.out.chart.metricQuery) = <<"2", "0">>
    /\ HasPrefix(fn.out.explorer.metricQuery,
                 <<"metricSelector", "=">> \o MergeMetric \o <<":", "merge(", "2", ")", ":", "merge(", "0", ")">>)

SLODone == fn.op = "ProcessSLOTile" /\ fn.done /\ fn.in.result.Error = "NONE"

NewOrOld(new, old) == IF new > 0 THEN new ELSE old

SLOTarget == NewOrOld(fn.in.result.Target, fn.in.result.TargetSuccessOLD)

SLOWarning == NewOrOld(fn.in.result.Warning, fn.in.result.TargetWarningOLD)

SLOValueAndQuery ==
    /\ Len(fn.out.sliResults) = 1
    /\ fn.out.sliResults[1].Success
    /\ fn.out.sliResults[1].Value = Num(fn.in.result.EvaluatedPercentage)
    /\ fn.out.Indicators[fn.out.sliResults[1].Metric] = <<"SLO", ";">> \o fn.in.sloID
    /\ Len(fn.out.Objectives) = 1
    /\ fn.out.Objectives[1].SLI = fn.out.sliResults[1].Metric

\* C27: the SLODefinition of an SLO tile has the pass criterion >= target and
\* the warning criterion >= warning, of the new fields when positive and of
\* the old fields otherwise; the value is the evaluated percentage and the
\* stored query is SLO;<id>.
PassIsTarget ==
    SLODone =>
        /\ SLOValueAndQuery
        /\ fn.out.Objectives[1].Pass = << Criteria(">=", SLOTarget) >>
        /\ fn.out.Objectives[1].Warning = << Criteria(">=", SLOWarning) >>

\* C27, amended: the pass criterion is >= warning and the warning criterion
\* is >= target, of the new fields when positive and of the old fields
\* otherwise; the value is the evaluated percentage and the stored query is
\* SLO;<id>.
PassIsWarning ==
    SLODone =>
        /\ SLOValueAndQuery
        /\ fn.out.Objectives[1].Pass = << Criteria(">=", SLOWarning) >>
        /\ fn.out.Objectives[1].Warning = << Criteria(">=", SLOTarget) >>

PassIsWarningWitness ==
    /\ SLODone
    /\ fn.in.result.Target = 98
    /\ fn.in.result.Warning = 0
    /\ fn.in.result.TargetWarningOLD = 92
    /\ fn.out.Objectives[1].Pass = << Criteria(">=", 92) >>
    /\ fn.out.Objectives[1].Warning = << Criteria(">=", 98) >>

ProblemDone == fn.op = "ProcessOpenProblemTile" /\ fn.done

ZoneFilter(zone) ==
    IF zone = NilPtr THEN <<>> ELSE <<",", "managementZoneIds(">> \o zone \o <<")">>

\* the open-state predicate, then the filter of the dashboard, then the
\* filter of the tile
OpenProblemSelector ==
    IF fn.in.withSelector
    THEN <<"status(open)">> \o ZoneFilter(fn.in.dashboardZone) \o ZoneFilter(fn.in.tileZone)
    ELSE <<>>

SelectorsJoined(problemSelector, entitySelector) ==
    (IF problemSelector # <<>> THEN <<"problemSelector", "=">> \o problemSelector ELSE <<>>)
    \o (IF problemSelector # <<>> /\ entitySelector # <<>> THEN <<"&">> ELSE <<>>)
    \o (IF entitySelector # <<>> THEN <<"entitySelector", "=">> \o entitySelector ELSE <<>>)

\* C28: the query of ProcessOpenProblemTile, and the stored PV2;<query>,
\* holds problemSelector=<selector> when the problem selector is not empty
\* and entitySelector=<selector> when the entity selector is not empty, with
\* & between the two; the problem selector of the pass is the open-state
\* predicate, then the filter of the dashboard, then the filter of the tile,
\* joined by commas.
ProblemQueryHoldsSelectors ==
    ProblemDone =>
        /\ Len(fn.out.requests) = 1
        /\ fn.out.requests[1].api = "problems"
        /\ fn.out.requests[1].arg = SelectorsJoined(OpenProblemSelector, fn.in.entitySelector)
        /\ fn.in.resp.kind = "ok" =>
              fn.out.Indicators[<<"problems">>] =
                  <<"PV2", ";">> \o SelectorsJoined(OpenProblemSelector, fn.in.entitySelector)

\* what a tile adds to the requests and to the results of the pass
NewRequests(tile, env) ==
    With(processTile(dashboardJSON[1], tile, env, Accumulated).requests, LAMBDA log :
        SubSeq(log, Len(requests) + 1, Len(log)))

OnlyOf(tile, env, api, indicator) ==
    /\ \A k \in DOMAIN NewRequests(tile, env) : NewRequests(tile, env)[k].api = api
    /\ \A k \in DOMAIN NewResults(tile, env) : NewResults(tile, env)[k].Metric = indicator

\* C29: an OPEN_PROBLEMS tile queries only the problems endpoint and adds
\* only the indicator problems; an OPEN_SECURITY_PROBLEMS tile queries only
\* the security problems endpoint and adds only security_problems.
ProblemTilesExclusive ==
    TileTurn =>
        \A env \in TileEnvs(dashboardJSON[1], dashboardJSON[1].Tiles[tileIx]) :
            With(dashboardJSON[1].Tiles[tileIx], LAMBDA tile :
                /\ tile.TileType = "OPEN_PROBLEMS" =>
                      OnlyOf(tile, env, "problems", <<"problems">>)
                /\ tile.TileType = "OPEN_SECURITY_PROBLEMS" =>
                      OnlyOf(tile, env, "securityProblems", <<"security_problems">>))

\* the indicator names of the successful results, in order
RECURSIVE SuccessfulNames(_)
SuccessfulNames(results) ==
    IF results = <<>> THEN <<>>
    ELSE (IF Head(results).Success THEN << Head(results).Metric >> ELSE <<>>)
         \o SuccessfulNames(Tail(results))

ObjectiveNames(objectives) == [k \in DOMAIN objectives |-> objectives[k].SLI]

\* C30: the SLO document holds as many SLODefinitions as there are successful
\* SLIResults, the k-th SLODefinition names the indicator of the k-th
\* successful SLIResult, and a failed SLIResult has no SLODefinition.
ObjectivesOfSuccessful ==
    /\ ObjectiveNames(Objectives) = SuccessfulNames(sliResults)
    /\ (ret.returned /\ ret.dashboardSLO # NilPtr) =>
          ObjectiveNames(ret.dashboardSLO[1].Objectives) = SuccessfulNames(ret.sliResults)

ObjectivesOfSuccessfulWitness ==
    /\ ret.returned
    /\ ret.dashboardSLO # NilPtr
    /\ Len(ret.sliResults) = 3
    /\ ~ret.sliResults[1].Success
    /\ ret.sliResults[2].Success
    /\ ret.sliResults[3].Success
    /\ ObjectiveNames(ret.dashboardSLO[1].Objectives) =
          << ret.sliResults[2].Metric, ret.sliResults[3].Metric >>

=============================================================================
